---- MODULE Spec2Model ----
(***************************************************************************)
(* nom-mpq: a reader of MoPaQ (MPQ) archives.                              *)
(*                                                                         *)
(* The model follows src/src/lib.rs (the encryption table, the string      *)
(* hash, the stream cipher, the hash table lookup, the decompressor, the   *)
(* sector reader and the list of files) and src/src/parser (the headers).  *)
(*                                                                         *)
(* Machine integers are little-endian byte sequences, 4 bytes for u32 and  *)
(* i32, 8 bytes for u64, i64 and usize, so that every width of the source  *)
(* is kept: TLC's own integers stop at 2^31 - 1 and are used only for      *)
(* lengths, indices and loop counters, which stay far below that.          *)
(***************************************************************************)
EXTENDS Integers, Sequences, FiniteSets, TLC

VARIABLES
    encryption_table,     \* MPQ.encryption_table / MPQBuilder.encryption_table
    archive_header,       \* MPQ.archive_header (the fields the reader uses)
    hash_table_entries,   \* MPQ.hash_table_entries
    block_table_entries,  \* MPQ.block_table_entries
    orig_input,           \* the byte buffer the archive was parsed from
    call,                 \* the last operation called, with its arguments
    ret                   \* what that operation returned

vars == <<encryption_table, archive_header, hash_table_entries,
          block_table_entries, orig_input, call, ret>>

(***************************************************************************)
(* Machine integers                                                        *)
(***************************************************************************)

\* A u32 written most significant byte first, as in the source's literals.
U32(b3, b2, b1, b0) == <<b0, b1, b2, b3>>

\* The len-byte little-endian form of a natural number.
RECURSIVE OfNat(_, _)
OfNat(n, len) == IF len = 0 THEN <<>> ELSE <<n % 256>> \o OfNat(n \div 256, len - 1)

\* The value of a machine integer that is below 2^31 (TLC stops on overflow
\* rather than wrap, so a larger value is never silently misread).
RECURSIVE ToNat(_)
ToNat(w) == IF w = <<>> THEN 0 ELSE w[1] + 256 * ToNat(Tail(w))

\* A function on 1..n as the tuple of its values.
Bytes(f) == SubSeq(f, 1, Len(f))

\* `x as u64`, `x as usize` of an unsigned x: zero extension.
ZeroExt(w, len) == Bytes([i \in 1..len |-> IF i <= Len(w) THEN w[i] ELSE 0])

\* `x as i64` of an i32 x: sign extension.
SignExt(w, len) ==
    Bytes([i \in 1..len |-> IF i <= Len(w) THEN w[i]
                            ELSE IF w[Len(w)] >= 128 THEN 255 ELSE 0])

\* `x as u32`, `x as i32` of a 64-bit x: the low bytes.
Trunc(w, len) == SubSeq(w, 1, len)

\* Bitwise and of two values below 2^n.
RECURSIVE AndBits(_, _, _)
AndBits(a, b, n) ==
    IF n = 0 THEN 0
    ELSE (a % 2) * (b % 2) + 2 * AndBits(a \div 2, b \div 2, n - 1)

\* `a & b`, `a | b`, `a ^ b`, `!a` on machine integers of one width.
BitAnd(a, b) == Bytes([i \in 1..Len(a) |-> AndBits(a[i], b[i], 8)])
BitOr(a, b) == Bytes([i \in 1..Len(a) |-> a[i] + b[i] - AndBits(a[i], b[i], 8)])
BitXor(a, b) == Bytes([i \in 1..Len(a) |-> a[i] + b[i] - 2 * AndBits(a[i], b[i], 8)])
BitNot(a) == Bytes([i \in 1..Len(a) |-> 255 - a[i]])

\* `a + b` modulo 2^(8 * Len(a)): two's complement addition.
RECURSIVE AddCarry(_, _, _)
AddCarry(a, b, c) ==
    IF a = <<>> THEN <<>>
    ELSE LET s == a[1] + b[1] + c
         IN  <<s % 256>> \o AddCarry(Tail(a), Tail(b), s \div 256)

Add(a, b) == AddCarry(a, b, 0)

\* `a - b` modulo 2^(8 * Len(a)).
Sub(a, b) == AddCarry(a, BitNot(b), 1)

\* Unsigned `a < b` on machine integers of one width.
RECURSIVE Lt(_, _)
Lt(a, b) ==
    IF a = <<>> THEN FALSE
    ELSE LET n == Len(a)
         IN  IF a[n] # b[n] THEN a[n] < b[n]
             ELSE Lt(SubSeq(a, 1, n - 1), SubSeq(b, 1, n - 1))

\* `a << k`: the bits shifted out at the top are lost.
Shl(a, k) ==
    LET q == k \div 8
        r == k % 8
        at(i) == IF i >= 1 THEN a[i] ELSE 0
    IN  Bytes([i \in 1..Len(a) |->
                 ((at(i - q) * 2^r) % 256) + (at(i - q - 1) \div 2^(8 - r))])

\* `a >> k` with the top filled by `fill` (0: logical, the shift of an
\* unsigned integer; 255: the sign of a negative signed integer).
ShrFill(a, k, fill) ==
    LET q == k \div 8
        r == k % 8
        at(i) == IF i <= Len(a) THEN a[i] ELSE fill
    IN  Bytes([i \in 1..Len(a) |->
                 (at(i + q) \div 2^r) + ((at(i + q + 1) * 2^(8 - r)) % 256)])

\* `a >> k` on an unsigned integer.
Shr(a, k) == ShrFill(a, k, 0)

\* `a >> k` on a signed integer: arithmetic.
Sar(a, k) == ShrFill(a, k, IF a[Len(a)] >= 128 THEN 255 ELSE 0)

\* `n as f32` for 0 <= n <= 2^30: the nearest value with a 24-bit
\* significand, ties to even. The result is an integer and is returned as one.
RECURSIVE F32Unit(_, _)
F32Unit(n, unit) == IF n < 16777216 * unit THEN unit ELSE F32Unit(n, 2 * unit)

AsF32(n) ==
    LET unit == F32Unit(n, 1)
        q    == n \div unit
        r    == n % unit
    IN  IF 2 * r > unit \/ (2 * r = unit /\ q % 2 = 1)
        THEN (q + 1) * unit
        ELSE q * unit

(***************************************************************************)
(* Results: Ok((tail, data)), Err(nom error) or a panic                    *)
(***************************************************************************)

Ok(tail, data) == [kind |-> "Ok", tail |-> tail, data |-> data, why |-> ""]
Err(why)       == [kind |-> "Err", tail |-> <<>>, data |-> <<>>, why |-> why]
Panic(why)     == [kind |-> "Panic", tail |-> <<>>, data |-> <<>>, why |-> why]
NoResult       == [kind |-> "None", tail |-> <<>>, data |-> <<>>, why |-> ""]

(***************************************************************************)
(* The encryption table (lib.rs, MPQ::prepare_encryption_table)            *)
(***************************************************************************)

\* The generator with the modulus 0x2AAAAA: the spot values of the table
\* tell it from the generator of the source.
NextSeedOtherModulus(seed) == (seed * 125 + 3) % \h2AAAAA

\* `seed = (seed * 125 + 3) % 0x2AAAAB` in u32: seed stays below 0x2AAAAB, so
\* the product stays below 2^29 and never wraps.
NextSeed(seed) == (seed * 125 + 3) % \h2AAAAB

\* `res.insert(idx, value)` on the HashMap.
Insert(map, key, value) == (key :> value) @@ map

\* The inner loop `for _ in 0..5`, with `left` rounds to go.
RECURSIVE FillBands(_, _, _, _)
FillBands(left, idx, seed, res) ==
    IF left = 0 THEN [seed |-> seed, res |-> res]
    ELSE LET seedA == NextSeed(seed)
             temp1 == Shl(OfNat(seedA % 65536, 4), 16)
             seedB == NextSeed(seedA)
             temp2 == OfNat(seedB % 65536, 4)
         IN  FillBands(left - 1, idx + 256, seedB,
                       Insert(res, idx, BitOr(temp1, temp2)))

\* The outer loop `for i in (0..256)` over the columns i .. last - 1. Each
\* column is computed before the next one starts.
RECURSIVE FillColumns(_, _, _, _)
FillColumns(i, last, seed, res) ==
    IF i = last THEN [seed |-> seed, res |-> res]
    ELSE LET column == FillBands(5, i, seed, res)
         IN  IF column.seed < \h2AAAAB
             THEN FillColumns(i + 1, last, column.seed, column.res)
             ELSE column

\* The same loop taken sixteen columns at a time, which keeps the depth of
\* the evaluation small; the order of the 2560 seeds is that of the source.
RECURSIVE FillTable(_, _, _)
FillTable(i, seed, res) ==
    IF i = 256 THEN res
    ELSE LET part == FillColumns(i, i + 16, seed, res)
         IN  IF part.seed < \h2AAAAB
             THEN FillTable(i + 16, part.seed, part.res)
             ELSE part.res

prepare_encryption_table == FillTable(0, \h100001, <<>>)

(***************************************************************************)
(* The string hash (lib.rs, MPQ::mpq_string_hash)                          *)
(***************************************************************************)

\* MPQHashType as u32 (parser/mod.rs, TryFrom<MPQHashType> for u32).
TableOffset == 0
HashA == 1
HashB == 2
Table == 3
MPQHashType == {TableOffset, HashA, HashB, Table}

\* The characters of the model, as Unicode code points.
LatinSmallA == 97           \* 'a'
LatinCapitalZ == 90         \* 'Z'
FullStop == 46              \* '.'
SharpS == 223               \* U+00DF, uppercases to "SS"
CapitalIWithDot == 304      \* U+0130, lowercases to 'i' + U+0307
CombiningDot == 775         \* U+0307
Chars == {LatinSmallA, LatinCapitalZ, FullStop, SharpS, CapitalIWithDot,
          CombiningDot}

\* char::to_uppercase on the characters of the model and of the table names
\* (ASCII letters, ASCII punctuation, U+00DF, U+0130, U+0307).
UpperOf(ch) ==
    IF ch >= 97 /\ ch <= 122 THEN <<ch - 32>>
    ELSE IF ch = SharpS THEN <<83, 83>>
    ELSE <<ch>>

\* A hash that takes the characters as they are written.
KeepCase(s) == s

\* str::to_uppercase: every character replaced by its uppercase mapping.
RECURSIVE to_uppercase(_)
to_uppercase(s) ==
    IF s = <<>> THEN <<>> ELSE UpperOf(Head(s)) \o to_uppercase(Tail(s))

MASK32 == <<255, 255, 255, 255, 0, 0, 0, 0>>    \* 0xFFFFFFFFu64

\* The body of the loop for one character; seed1 and seed2 are u64. The
\* seeds after the character are returned in `tail` and `data`.
HashChar(table, ch_ord, hash_type_idx, seed1, seed2) ==
    LET index == hash_type_idx * 256 + ch_ord
    IN  IF index \notin DOMAIN table
        THEN Panic("Couldn't find index in map")
        ELSE LET value == ZeroExt(table[index], 8)
                 s1 == BitAnd(BitXor(value, Add(seed1, seed2)), MASK32)
                 s2 == BitAnd(Add(Add(Add(Add(OfNat(ch_ord, 8), s1), seed2),
                                      Shl(seed2, 5)),
                                  OfNat(3, 8)),
                              MASK32)
             IN  Ok(s1, s2)

\* The loop over the uppercased characters, ended by `seed1 as u32`.
RECURSIVE HashChars(_, _, _, _, _)
HashChars(table, chars, hash_type_idx, seed1, seed2) ==
    IF chars = <<>> THEN Ok(<<>>, Trunc(seed1, 4))
    ELSE LET step == HashChar(table, Head(chars), hash_type_idx, seed1, seed2)
         IN  IF step.kind = "Panic" THEN step
             ELSE HashChars(table, Tail(chars), hash_type_idx, step.tail, step.data)

\* The hash started from the seed 0x7FED7FEE.
HashFromOtherSeed(table, location, hash_type) ==
    HashChars(table, to_uppercase(location), hash_type,
              ZeroExt(U32(\h7F, \hED, \h7F, \hEE), 8),
              ZeroExt(U32(\hEE, \hEE, \hEE, \hEE), 8))

\* The hash is returned in `data`; a missing table index panics.
mpq_string_hash(table, location, hash_type) ==
    HashChars(table, to_uppercase(location), hash_type,
              ZeroExt(U32(\h7F, \hED, \h7F, \hED), 8),
              ZeroExt(U32(\hEE, \hEE, \hEE, \hEE), 8))

(***************************************************************************)
(* The stream cipher (lib.rs, MPQ::mpq_data_decrypt)                       *)
(***************************************************************************)

\* `(data.len() as f32 / 4f32).floor() as usize`: the division by four is
\* exact in f32, the conversion of the length is not.
decrypt_rounds(len) == AsF32(len) \div 4

\* The body of the loop for the word i; seed1, seed2 and value are i64. The
\* result is the two seeds after the word and the bytes pushed to `res`;
\* `continue` leaves all three as they were.
DecryptWord(table, data, i, seed1, seed2) ==
    LET index == 1024 + seed1[1]
    IN  IF index \notin DOMAIN table
        THEN [kind |-> "continue", seed1 |-> seed1, seed2 |-> seed2, out |-> <<>>]
        ELSE IF i * 4 + 4 > Len(data)
        THEN Panic("range end index out of range for slice")
        ELSE LET encryption_table_value == ZeroExt(table[index], 8)
                 seed2a == BitAnd(Add(seed2, encryption_table_value), MASK32)
                 word   == SignExt(SubSeq(data, i * 4 + 1, i * 4 + 4), 8)
                 value  == BitAnd(BitXor(word, Add(seed1, seed2a)), MASK32)
                 seed1b == BitAnd(
                             BitOr(Add(Shl(BitNot(seed1), 21),
                                       ZeroExt(U32(\h11, \h11, \h11, \h11), 8)),
                                   Sar(seed1, 11)),
                             MASK32)
                 seed2b == BitAnd(Add(Add(Add(value, seed2a), Shl(seed2a, 5)),
                                      OfNat(3, 8)),
                                  MASK32)
             IN  [kind |-> "Ok", seed1 |-> seed1b, seed2 |-> seed2b,
                  out |-> Trunc(value, 4)]

\* The loop `for i in 0..rounds`, from the word i on.
RECURSIVE DecryptWords(_, _, _, _, _, _, _)
DecryptWords(table, data, i, rounds, seed1, seed2, res) ==
    IF i = rounds THEN Ok(data, res)
    ELSE LET step == DecryptWord(table, data, i, seed1, seed2)
         IN  IF step.kind = "Panic" THEN step
             ELSE DecryptWords(table, data, i + 1, rounds, step.seed1, step.seed2,
                               res \o step.out)

mpq_data_decrypt(table, data, key) ==
    DecryptWords(table, data, 0, decrypt_rounds(Len(data)),
                 ZeroExt(key, 8), ZeroExt(U32(\hEE, \hEE, \hEE, \hEE), 8), <<>>)

\* The same function on a buffer of which only the length is known: the
\* number of rounds and the slices `&data[i * 4..i * 4 + 4]` depend on the
\* length alone, and every round finds its table entry (0x400 + a byte) and
\* emits four bytes. `tail` and `data` hold the length of the remainder and
\* that of the plaintext, each as a tuple of one number.
mpq_data_decrypt_len(len) ==
    LET rounds == decrypt_rounds(len)
    IN  IF rounds > 0 /\ (rounds - 1) * 4 + 4 > len
        THEN Panic("range end index out of range for slice")
        ELSE Ok(<<len>>, <<4 * rounds>>)

(***************************************************************************)
(* The builder and the calls of the hash and of the cipher                 *)
(***************************************************************************)

\* The names whose hashes key the two tables (parser/mod.rs, parse).
HashTableName == <<40, 104, 97, 115, 104, 32, 116, 97, 98, 108, 101, 41>>
BlockTableName == <<40, 98, 108, 111, 99, 107, 32, 116, 97, 98, 108, 101, 41>>

hash_table_key(table) == mpq_string_hash(table, HashTableName, Table)
block_table_key(table) == mpq_string_hash(table, BlockTableName, Table)

\* Bounds of the inputs.
MaxStrLen == 2
MaxWords == 3
MaxLen == 20

Strings ==
    UNION {[1..n -> Chars] : n \in 0..MaxStrLen} \cup {HashTableName, BlockTableName}

Keys == {U32(0, 0, 0, 0), U32(\hC3, \hAF, \h37, \h70), U32(\hFF, \hFF, \hFF, \hFF)}

CipherWords == {<<0, 0, 0, 0>>, <<255, 255, 255, 255>>, <<7, 248, 184, 85>>}

\* The first 16 bytes of the encrypted hash table of the test fixture
\* (parser/mod.rs, it_generates_hashes) and their plaintext.
FixtureCipher == <<7, 248, 184, 85, 79, 180, 142, 60, 124, 168, 123, 172, 174, 26, 0, 224>>
FixturePlain == <<203, 55, 132, 211, 236, 234, 223, 7, 0, 0, 0, 0, 9, 0, 0, 0>>

RECURSIVE Flatten(_)
Flatten(ws) == IF ws = <<>> THEN <<>> ELSE Head(ws) \o Flatten(Tail(ws))

\* Buffers of up to MaxWords words followed by 0 to 3 trailing bytes.
CipherTexts ==
    {Flatten(ws) \o SubSeq(<<165, 90, 60>>, 1, t) :
        ws \in UNION {[1..n -> CipherWords] : n \in 0..MaxWords}, t \in 0..3}
    \cup {FixtureCipher}

\* Lengths of buffers given by their length alone: the short ones, and some
\* beyond 2^24, where an f32 no longer holds every integer.
Lengths ==
    (0..MaxLen) \cup {16777216, 16777219, 33554438, 67108868, 268435456, 268435472}

\* MPQBuilder::new(): no header, empty tables, the encryption table built.
InitCipher ==
    /\ encryption_table = prepare_encryption_table
    /\ archive_header = <<>>
    /\ hash_table_entries = <<>>
    /\ block_table_entries = <<>>
    /\ orig_input = <<>>
    /\ call = [op |-> "new"]
    /\ ret = NoResult

\* builder.mpq_string_hash(location, hash_type). The hash and the cipher take
\* `&self` and change nothing, so every call is taken on the builder as
\* constructed.
StringHash ==
    /\ call.op = "new"
    /\ \E location \in Strings, hash_type \in MPQHashType :
        /\ call' = [op |-> "mpq_string_hash", location |-> location,
                    hash_type |-> hash_type]
        /\ ret' = mpq_string_hash(encryption_table, location, hash_type)
    /\ UNCHANGED <<encryption_table, archive_header, hash_table_entries,
                   block_table_entries, orig_input>>

\* builder.mpq_data_decrypt(data, key)
DataDecrypt ==
    /\ call.op = "new"
    /\ \E data \in CipherTexts, key \in Keys :
        /\ call' = [op |-> "mpq_data_decrypt", data |-> data, key |-> key]
        /\ ret' = mpq_data_decrypt(encryption_table, data, key)
    /\ UNCHANGED <<encryption_table, archive_header, hash_table_entries,
                   block_table_entries, orig_input>>

\* builder.mpq_data_decrypt(data, key) on a buffer of len bytes
DataDecryptLen ==
    /\ call.op = "new"
    /\ \E len \in Lengths :
        /\ call' = [op |-> "mpq_data_decrypt_len", len |-> len]
        /\ ret' = mpq_data_decrypt_len(len)
    /\ UNCHANGED <<encryption_table, archive_header, hash_table_entries,
                   block_table_entries, orig_input>>

NextCipher == StringHash \/ DataDecrypt \/ DataDecryptLen

SpecCipher == InitCipher /\ [][NextCipher]_vars

(***************************************************************************)
(* The encryption table and the string hash                                *)
(***************************************************************************)

TableValues ==
    /\ encryption_table[0] = U32(\h55, \hC6, \h36, \hE2)        \* 1439053538
    /\ encryption_table[51] = U32(\hC7, \h9B, \h76, \h94)       \* 3348854420
    /\ encryption_table[317] = U32(\h00, \h0C, \h5B, \h22)      \* 809762
    /\ encryption_table[1279] = U32(\h73, \h03, \h28, \h6C)     \* 1929586796

TableShape ==
    /\ DOMAIN encryption_table = 0..1279
    /\ Cardinality(DOMAIN encryption_table) = 1280
    /\ \A idx \in DOMAIN encryption_table :
        /\ Len(encryption_table[idx]) = 4
        /\ \A b \in 1..4 : encryption_table[idx][b] \in 0..255

\* C1, as the code has it: the table built by MPQBuilder::new has exactly
\* the 1280 keys 0..=1279, every value is a u32, and table[0] = 0x55C636E2,
\* table[51] = 0xC79B7694, table[317] = 0x000C5B22, table[1279] = 0x7303286C
\* (the decimal values 1439053538, 3348854420, 809762, 1929586796 of the
\* test).
C1_Table == TableShape /\ TableValues

\* C1 as stated: the same shape, with table[51] = 0xC798E394,
\* table[317] = 0x000C5A62 and table[1279] = 0x7301876C.
C1_TableAsStated ==
    /\ TableShape
    /\ encryption_table[0] = U32(\h55, \hC6, \h36, \hE2)
    /\ encryption_table[51] = U32(\hC7, \h98, \hE3, \h94)
    /\ encryption_table[317] = U32(\h00, \h0C, \h5A, \h62)
    /\ encryption_table[1279] = U32(\h73, \h01, \h87, \h6C)

\* A builder just constructed, its last entry in place.
C1_Built == call.op = "new" /\ 1279 \in DOMAIN encryption_table

\* C2: with the table of the builder, the hash of "(hash table)" in the Table
\* domain is 0xC3AF3770 and that of "(block table)" is 0xEC83B3A3; they are
\* the keys of the two tables, and the first decrypts the head of the hash
\* table of the test archive to its first entry.
C2_TableKeys ==
    /\ (/\ call.op = "mpq_string_hash"
        /\ call.hash_type = Table
        /\ call.location = HashTableName)
       => /\ ret = Ok(<<>>, U32(\hC3, \hAF, \h37, \h70))
          /\ hash_table_key(encryption_table) = ret
    /\ (/\ call.op = "mpq_string_hash"
        /\ call.hash_type = Table
        /\ call.location = BlockTableName)
       => /\ ret = Ok(<<>>, U32(\hEC, \h83, \hB3, \hA3))
          /\ block_table_key(encryption_table) = ret
    /\ (/\ call.op = "mpq_data_decrypt"
        /\ call.data = FixtureCipher
        /\ call.key = U32(\hC3, \hAF, \h37, \h70))
       => ret = Ok(FixtureCipher, FixturePlain)

C2_BlockTableHashed ==
    /\ call.op = "mpq_string_hash"
    /\ call.hash_type = Table
    /\ call.location = BlockTableName
    /\ ret.kind = "Ok"

\* str::to_lowercase on the characters of the model: U+0130 becomes 'i'
\* followed by U+0307, an ASCII capital its small letter.
LowerOf(ch) ==
    IF ch >= 65 /\ ch <= 90 THEN <<ch + 32>>
    ELSE IF ch = CapitalIWithDot THEN <<105, CombiningDot>>
    ELSE <<ch>>

RECURSIVE to_lowercase(_)
to_lowercase(s) ==
    IF s = <<>> THEN <<>> ELSE LowerOf(Head(s)) \o to_lowercase(Tail(s))

IsAscii(s) == \A i \in 1..Len(s) : s[i] < 128

SameHashInBothCases ==
    /\ mpq_string_hash(encryption_table, to_lowercase(call.location),
                       call.hash_type) = ret
    /\ mpq_string_hash(encryption_table, to_uppercase(call.location),
                       call.hash_type) = ret

\* C3, as the code has it: for every ASCII string s and each of the four
\* hash domains d, the hashes of lowercase(s), of uppercase(s) and of s are
\* one value.
C3_CaseInsensitiveAscii ==
    (call.op = "mpq_string_hash" /\ IsAscii(call.location)) => SameHashInBothCases

\* C3 as stated: the same for all strings.
C3_CaseInsensitive == call.op = "mpq_string_hash" => SameHashInBothCases

\* A hash of a string of both cases.
C3_MixedCaseHashed ==
    /\ call.op = "mpq_string_hash"
    /\ call.location = <<LatinCapitalZ, LatinSmallA>>
    /\ ret.kind = "Ok"

(***************************************************************************)
(* The stream cipher against its reference in unsigned 32-bit arithmetic   *)
(***************************************************************************)

SEED2 == U32(\hEE, \hEE, \hEE, \hEE)
ONES == U32(\h11, \h11, \h11, \h11)

\* The key schedule of the reference for one word: s2 after the table
\* value is added, and s1 for the next word. Everything is modulo 2^32.
RefSeed2(table, s1, s2) == Add(s2, table[1024 + s1[1]])
RefSeed1(s1) == BitOr(Add(Shl(BitNot(s1), 21), ONES), Shr(s1, 11))

\* One word of the reference: `from` is the word read, `plain` tells
\* whether it is the plaintext (encrypting) or the ciphertext (decrypting).
RefWord(table, from, plain, s1, s2) ==
    LET s2a == RefSeed2(table, s1, s2)
        to  == BitXor(from, Add(s1, s2a))
        p   == IF plain THEN from ELSE to
    IN  [seed1 |-> RefSeed1(s1),
         seed2 |-> Add(Add(Add(p, s2a), Shl(s2a, 5)), OfNat(3, 4)),
         out   |-> to]

RECURSIVE RefWords(_, _, _, _, _, _, _)
RefWords(table, data, plain, i, s1, s2, res) ==
    IF i = Len(data) \div 4 THEN res
    ELSE LET step == RefWord(table, SubSeq(data, i * 4 + 1, i * 4 + 4), plain, s1, s2)
         IN  IF Len(step.out) # 4 THEN res
             ELSE RefWords(table, data, plain, i + 1, step.seed1, step.seed2,
                           res \o step.out)

RefDecrypt(table, data, key) == RefWords(table, data, FALSE, 0, key, SEED2, <<>>)
RefEncrypt(table, data, key) == RefWords(table, data, TRUE, 0, key, SEED2, <<>>)

\* On the buffers given byte by byte, the plaintext is that of the reference.
C4_WordForWord ==
    call.op = "mpq_data_decrypt"
    => ret = Ok(call.data, RefDecrypt(encryption_table, call.data, call.key))

\* On the buffers given by their length, there are as many bytes of
\* plaintext as the reference emits.
DecryptsEveryWord ==
    call.op = "mpq_data_decrypt_len"
    => ret.kind = "Ok" /\ ret.data = <<4 * (call.len \div 4)>>

\* C4: for every key and every ciphertext, mpq_data_decrypt emits, word for
\* word, the plaintext of the reference cipher computed in unsigned 32-bit
\* arithmetic from s1 = key, s2 = 0xEEEEEEEE.
C4_SameAsReference == C4_WordForWord /\ DecryptsEveryWord

\* C5: for every buffer of length L and every key, mpq_data_decrypt returns
\* Ok with exactly 4 * floor(L / 4) bytes of plaintext and the input buffer
\* itself as the remainder.
C5_EveryCompleteWord ==
    /\ call.op = "mpq_data_decrypt"
       => /\ ret.kind = "Ok"
          /\ Len(ret.data) = 4 * (Len(call.data) \div 4)
          /\ ret.tail = call.data
    /\ call.op = "mpq_data_decrypt_len"
       => /\ ret.kind = "Ok"
          /\ ret.data = <<4 * (call.len \div 4)>>
          /\ ret.tail = <<call.len>>

\* The same for the lengths up to 2^24, which an f32 holds exactly.
C5_UpTo16MiB ==
    /\ (call.op = "mpq_data_decrypt" /\ Len(call.data) <= 16777216)
       => /\ ret.kind = "Ok"
          /\ Len(ret.data) = 4 * (Len(call.data) \div 4)
          /\ ret.tail = call.data
    /\ (call.op = "mpq_data_decrypt_len" /\ call.len <= 16777216)
       => /\ ret.kind = "Ok"
          /\ ret.data = <<4 * (call.len \div 4)>>
          /\ ret.tail = <<call.len>>

\* On the 16-byte-aligned buffers given byte by byte: encrypting the buffer
\* and decrypting the result gives the buffer back, and so does decrypting
\* it and encrypting the result.
C6_RoundTripBytes ==
    (call.op = "mpq_data_decrypt" /\ Len(call.data) % 16 = 0)
    => LET encrypted == RefEncrypt(encryption_table, call.data, call.key)
       IN  /\ mpq_data_decrypt(encryption_table, encrypted, call.key)
                = Ok(encrypted, call.data)
           /\ ret.kind = "Ok"
           /\ RefEncrypt(encryption_table, ret.data, call.key) = call.data

\* C6: for any 16-byte-aligned plaintext x and any key k,
\* decrypt(encrypt(x, k), k) = x: the plaintext comes back whole, as long as
\* x is.
C6_RoundTrip ==
    /\ C6_RoundTripBytes
    /\ (call.op = "mpq_data_decrypt_len" /\ call.len % 16 = 0)
       => ret.kind = "Ok" /\ ret.data = <<call.len>>

(***************************************************************************)
(* The hash table lookup (lib.rs, MPQ::get_hash_table_entry)               *)
(***************************************************************************)

\* An entry that answers to one of the two hashes alone.
SameHashA(entry, hash_a, hash_b) == entry.hash_a = hash_a

\* `entry.hash_a == hash_a && entry.hash_b == hash_b`
SameHashes(entry, hash_a, hash_b) == entry.hash_a = hash_a /\ entry.hash_b = hash_b

\* The lookup that returns the last entry of both hashes.
RECURSIVE FindLastEntry(_, _, _)
FindLastEntry(entries, hash_a, hash_b) ==
    IF entries = <<>> THEN [kind |-> "None"]
    ELSE IF SameHashes(entries[Len(entries)], hash_a, hash_b)
    THEN [kind |-> "Some", entry |-> entries[Len(entries)]]
    ELSE FindLastEntry(SubSeq(entries, 1, Len(entries) - 1), hash_a, hash_b)

\* `for entry in &self.hash_table_entries`: the first entry of both hashes.
RECURSIVE FindEntry(_, _, _)
FindEntry(entries, hash_a, hash_b) ==
    IF entries = <<>> THEN [kind |-> "None"]
    ELSE IF SameHashes(Head(entries), hash_a, hash_b)
    THEN [kind |-> "Some", entry |-> Head(entries)]
    ELSE FindEntry(Tail(entries), hash_a, hash_b)

\* Some(entry), None, or the panic of the hash.
get_hash_table_entry(table, entries, filename) ==
    LET Find(hash_a, hash_b) ==
            IF hash_a.kind = "Panic" THEN hash_a
            ELSE IF hash_b.kind = "Panic" THEN hash_b
            ELSE FindEntry(entries, hash_a.data, hash_b.data)
    IN  Find(mpq_string_hash(table, filename, HashA),
             mpq_string_hash(table, filename, HashB))

(***************************************************************************)
(* Decompression (lib.rs, MPQ::decompress)                                 *)
(***************************************************************************)

COMPRESSION_PLAINTEXT == 0
COMPRESSION_ZLIB == 2
COMPRESSION_BZ2 == 16

\* The two decoders are libraries outside the source. Each is stood for by
\* a run-length code, which like them is no identity, can yield more bytes
\* than it reads and rejects some streams: the stream of zlib is made of
\* pairs (count, byte), that of bzip2 of pairs (byte, count), and a stream
\* that is empty or of odd length is corrupt.
RECURSIVE Runs(_, _)
Runs(stream, count_first) ==
    IF stream = <<>> THEN <<>>
    ELSE LET count == IF count_first THEN stream[1] ELSE stream[2]
             byte  == IF count_first THEN stream[2] ELSE stream[1]
         IN  Bytes([i \in 1..count |-> byte])
             \o Runs(SubSeq(stream, 3, Len(stream)), count_first)

Decoded(stream, count_first) ==
    IF stream = <<>> \/ Len(stream) % 2 = 1
    THEN Err("corrupt stream")
    ELSE Ok(<<>>, Runs(stream, count_first))

zlib_read_to_end(stream) == Decoded(stream, TRUE)
bz2_read_to_end(stream) == Decoded(stream, FALSE)

\* `d.read_to_end(&mut data).unwrap()`: the decoded bytes, or a panic.
Unwrap(tail, decoded) ==
    IF decoded.kind = "Ok" THEN Ok(tail, decoded.data)
    ELSE Panic("called Result::unwrap() on an Err value")

decompress(input) ==
    IF input = <<>> THEN Err("Eof")
    ELSE LET compression_type == Head(input)
             tail == Tail(input)
         IN  IF compression_type = COMPRESSION_PLAINTEXT THEN Ok(tail, tail)
             ELSE IF compression_type = COMPRESSION_ZLIB
             THEN Unwrap(tail, zlib_read_to_end(tail))
             ELSE IF compression_type = COMPRESSION_BZ2
             THEN Unwrap(tail, bz2_read_to_end(tail))
             ELSE Panic("Unsupported compression type")

(***************************************************************************)
(* The sector reader (lib.rs, MPQ::read_mpq_file_sector)                   *)
(***************************************************************************)

MPQ_FILE_COMPRESS == U32(\h00, \h00, \h02, \h00)
MPQ_FILE_ENCRYPTED == U32(\h00, \h01, \h00, \h00)
MPQ_FILE_SINGLE_UNIT == U32(\h01, \h00, \h00, \h00)
MPQ_FILE_SECTOR_CRC == U32(\h04, \h00, \h00, \h00)
MPQ_FILE_EXISTS == U32(\h80, \h00, \h00, \h00)

\* `flags & FLAG != 0`
HasFlag(flags, flag) == BitAnd(flags, flag) # U32(0, 0, 0, 0)

\* A reader that looks for the deletion mark in the ENCRYPTED bit.
MarkedEncrypted(block_entry) == ~HasFlag(block_entry.flags, MPQ_FILE_ENCRYPTED)

\* `block_entry.flags & MPQ_FILE_EXISTS == 0`
MarkedDeleted(block_entry) == ~HasFlag(block_entry.flags, MPQ_FILE_EXISTS)

\* A reader that decompresses compressed blocks only.
CompressedAndNeeded(block_entry, force_decompress) ==
    /\ HasFlag(block_entry.flags, MPQ_FILE_COMPRESS)
    /\ force_decompress \/ Lt(block_entry.archived_size, block_entry.size)

\* `flags & MPQ_FILE_COMPRESS != 0 && force_decompress
\*  || block_entry.size > block_entry.archived_size`
NeedsDecompress(block_entry, force_decompress) ==
    \/ HasFlag(block_entry.flags, MPQ_FILE_COMPRESS) /\ force_decompress
    \/ Lt(block_entry.archived_size, block_entry.size)

\* `&orig_input[offset..]` followed by `take(archived_size)`: the file data
\* in `data`, what follows it in `tail`.
FileData(header, block_entry, input) ==
    LET offset == Add(ZeroExt(block_entry.offset, 8), header.offset)
    IN  IF Lt(OfNat(Len(input), 8), offset)
        THEN Panic("range start index out of range for slice")
        ELSE LET from == SubSeq(input, ToNat(offset) + 1, Len(input))
             IN  IF Lt(OfNat(Len(from), 4), block_entry.archived_size)
                 THEN Err("Eof")
                 ELSE LET n == ToNat(block_entry.archived_size)
                      IN  Ok(SubSeq(from, n + 1, Len(from)), SubSeq(from, 1, n))

\* `512 << self.archive_header.sector_size_shift`
SectorSize(header) == 512 * 2^header.sector_size_shift

\* `(size as f32 / sector_size as f32).floor() as usize + 1`, and one more
\* with a CRC sector. The sector size is a power of two, by which an f32
\* is divided exactly.
Sectors(header, block_entry) ==
    (AsF32(ToNat(block_entry.size)) \div SectorSize(header)) + 1
    + (IF HasFlag(block_entry.flags, MPQ_FILE_SECTOR_CRC) THEN 1 ELSE 0)

\* The numbers of the sector loop: the positions read and the sectors
\* concatenated (`total_sectors`). `512 << shift` is an i32: a shift of 32
\* or more panics with overflow checks and is taken modulo 32 without; the
\* value is 2^31, negative, at 22 and 0 from 23 on. A negative or NaN
\* quotient is 0 as usize, an infinite one usize::MAX, to which 1 cannot be
\* added.
SectorCounts(header, block_entry, overflow_checks) ==
    LET shift == header.sector_size_shift
        crc   == IF HasFlag(block_entry.flags, MPQ_FILE_SECTOR_CRC) THEN 1 ELSE 0
        Counted(sectors) == Ok(<<>>, <<sectors + 1, sectors - crc>>)
    IN  IF overflow_checks /\ shift >= 32
        THEN Panic("attempt to shift left with overflow")
        ELSE IF shift % 32 <= 21
        THEN Counted(Sectors([header EXCEPT !.sector_size_shift = shift % 32],
                             block_entry))
        ELSE IF shift % 32 = 22 \/ block_entry.size = U32(0, 0, 0, 0)
        THEN Counted(1 + crc)
        ELSE IF overflow_checks
        THEN Panic("attempt to add with overflow")
        ELSE Counted(0 + crc)

\* The `count` positions read from the head of the file data, as usize.
Positions(file_data, count) ==
    Bytes([i \in 1..count |-> ZeroExt(SubSeq(file_data, 4 * i - 3, 4 * i), 8)])

\* The body of the loop over the sectors, for the sector `from..to`. With
\* overflow checks (a debug build) the subtraction panics when it would go
\* below zero; without them (a release build) it wraps.
ReadSector(block_entry, force_decompress, file_data, from, to, sector_bytes_left, overflow_checks) ==
    IF Lt(to, from) \/ Lt(OfNat(Len(file_data), 8), to)
    THEN Panic("slice index out of range")
    ELSE LET sector == SubSeq(file_data, ToNat(from) + 1, ToNat(to))
             len    == OfNat(Len(sector), 8)
             Extend(out) ==
                 IF out.kind # "Ok" THEN out
                 ELSE IF Lt(sector_bytes_left, len) /\ overflow_checks
                 THEN Panic("attempt to subtract with overflow")
                 ELSE [kind |-> "Ok", out |-> out.data,
                       sector_bytes_left |-> Sub(sector_bytes_left, len)]
         IN  Extend(IF \/ HasFlag(block_entry.flags, MPQ_FILE_COMPRESS)
                          /\ force_decompress
                       \/ Lt(len, sector_bytes_left)
                    THEN decompress(sector)
                    ELSE Ok(<<>>, sector))

\* `for i in 0..total_sectors`, from the sector i on.
RECURSIVE ReadSectorsFrom(_, _, _, _, _, _, _, _, _)
ReadSectorsFrom(block_entry, force_decompress, file_data, positions, i, total_sectors, sector_bytes_left, res, overflow_checks) ==
    IF i >= total_sectors THEN Ok(<<>>, res)
    ELSE LET After(step) ==
                 IF step.kind # "Ok" THEN step
                 ELSE ReadSectorsFrom(block_entry, force_decompress, file_data,
                                      positions, i + 1, total_sectors,
                                      step.sector_bytes_left, res \o step.out,
                                      overflow_checks)
         IN  After(ReadSector(block_entry, force_decompress, file_data,
                              positions[i + 1], positions[i + 2],
                              sector_bytes_left, overflow_checks))

\* The branch of the sectors: the position table, then the sectors.
ReadSectors(header, block_entry, force_decompress, file_data, tail, overflow_checks) ==
    LET Result(read) == IF read.kind = "Ok" THEN Ok(tail, read.data) ELSE read
        Loop(counts) ==
            IF counts.kind # "Ok" THEN counts
            ELSE IF 4 * counts.data[1] > Len(file_data)
            THEN Panic("range end index out of range for slice")
            ELSE LET positions == Positions(file_data, counts.data[1])
                     total_sectors == counts.data[2]
                 IN  Result(ReadSectorsFrom(block_entry, force_decompress, file_data,
                                            positions, 0, total_sectors,
                                            ZeroExt(block_entry.size, 8), <<>>,
                                            overflow_checks))
    IN  Loop(SectorCounts(header, block_entry, overflow_checks))

\* The reader once the block entry is known.
ReadBlock(header, block_entry, force_decompress, input, overflow_checks) ==
    IF MarkedDeleted(block_entry) THEN Ok(input, <<>>)
    ELSE IF block_entry.archived_size = U32(0, 0, 0, 0) THEN Ok(input, <<>>)
    ELSE LET Whole(tail, decompressed) ==
                 IF decompressed.kind = "Ok"
                 THEN Ok(tail, decompressed.data)
                 ELSE decompressed
             ReadData(taken) ==
                 IF taken.kind # "Ok" THEN taken
                 ELSE IF HasFlag(block_entry.flags, MPQ_FILE_ENCRYPTED)
                 THEN Panic("Encryption is not supported")
                 ELSE IF HasFlag(block_entry.flags, MPQ_FILE_SINGLE_UNIT)
                 THEN IF NeedsDecompress(block_entry, force_decompress)
                      THEN Whole(taken.tail, decompress(taken.data))
                      ELSE ReadSectors(header, block_entry, force_decompress,
                                       taken.data, taken.tail, overflow_checks)
                 ELSE Ok(taken.tail, <<>>)
         IN  ReadData(FileData(header, block_entry, input))

read_mpq_file_sector(table, header, hash_entries, block_entries, filename, force_decompress, input, overflow_checks) ==
    LET ReadEntry(hash_entry) ==
            IF hash_entry.kind = "Panic" THEN hash_entry
            ELSE IF hash_entry.kind = "None" THEN Ok(input, <<>>)
            ELSE LET index == hash_entry.entry.block_table_index
                 IN  IF ~Lt(index, OfNat(Len(block_entries), 4))
                     THEN Panic("index out of bounds")
                     ELSE ReadBlock(header, block_entries[ToNat(index) + 1],
                                    force_decompress, input, overflow_checks)
    IN  ReadEntry(get_hash_table_entry(table, hash_entries, filename))

(***************************************************************************)
(* Archives and the calls of the reader                                    *)
(***************************************************************************)

\* The names read: the first is in the hash table with its two hashes, the
\* second with its first hash alone, the third points past the block table.
FileNames == {<<LatinSmallA>>, <<LatinCapitalZ>>, <<FullStop>>}

HashOf(filename, hash_type) ==
    mpq_string_hash(prepare_encryption_table, filename, hash_type).data

\* MPQHashTableEntry::new(hash_a, hash_b, locale, platform, block_table_index)
HashEntry(hash_a, hash_b, block_table_index) ==
    [hash_a |-> hash_a, hash_b |-> hash_b, locale |-> <<0, 0>>,
     platform |-> <<0, 0>>, block_table_index |-> block_table_index]

\* The hash table of the archives: an entry of the first hash of "Z" and the
\* second of "a", a deleted slot, an empty slot, the entry of "a", an entry
\* of "." that names no block, and a second entry of "a" in another locale.
HashEntries ==
    << HashEntry(HashOf(<<LatinCapitalZ>>, HashA), HashOf(<<LatinSmallA>>, HashB),
                 U32(0, 0, 0, 0)),
       [hash_a |-> U32(255, 255, 255, 255), hash_b |-> U32(255, 255, 255, 255),
        locale |-> <<255, 255>>, platform |-> <<255, 255>>,
        block_table_index |-> U32(255, 255, 255, 254)],
       [hash_a |-> U32(255, 255, 255, 255), hash_b |-> U32(255, 255, 255, 255),
        locale |-> <<255, 255>>, platform |-> <<255, 255>>,
        block_table_index |-> U32(255, 255, 255, 255)],
       HashEntry(HashOf(<<LatinSmallA>>, HashA), HashOf(<<LatinSmallA>>, HashB),
                 U32(0, 0, 0, 0)),
       HashEntry(HashOf(<<FullStop>>, HashA), HashOf(<<FullStop>>, HashB),
                 U32(255, 255, 255, 255)),
       [hash_a |-> HashOf(<<LatinSmallA>>, HashA),
        hash_b |-> HashOf(<<LatinSmallA>>, HashB),
        locale |-> <<9, 4>>, platform |-> <<0, 0>>,
        block_table_index |-> U32(0, 0, 0, 1)] >>

\* The buffer of the archives: a position table (8, 12), a plaintext blob
\* (tag 0, "ABC"), a zlib blob (tag 2, three times 'A') with a byte after
\* it, and a position table (0, 8) that spans itself.
Input ==
    << 8, 0, 0, 0,   12, 0, 0, 0,   0, 65, 66, 67,
       2, 3, 65, 1,   0, 0, 0, 0,   8, 0, 0, 0 >>

\* Where the archive header was found in the buffer.
HeaderOffsets == {0, 8}

\* offset, archived_size and size of the block, the last offset being
\* beyond the buffer.
BlockLayouts ==
    { <<0, 0, 0>>, <<0, 12, 3>>, <<0, 12, 4>>, <<0, 12, 12>>,
      <<8, 4, 3>>, <<8, 4, 12>>, <<8, 8, 8>>,
      <<12, 3, 3>>, <<12, 3, 12>>, <<12, 4, 12>>,
      <<16, 8, 8>>, <<16, 12, 12>>,
      <<40, 0, 4>>, <<40, 4, 4>> }

Flags == {MPQ_FILE_COMPRESS, MPQ_FILE_ENCRYPTED, MPQ_FILE_SINGLE_UNIT,
          MPQ_FILE_SECTOR_CRC, MPQ_FILE_EXISTS}

\* The flags of a set, or-ed together.
RECURSIVE FlagsOf(_)
FlagsOf(set) ==
    IF set = {} THEN U32(0, 0, 0, 0)
    ELSE LET flag == CHOOSE f \in set : TRUE
         IN  BitOr(flag, FlagsOf(set \ {flag}))

\* MPQBlockTableEntry::new(offset, archived_size, size, flags)
BlockEntry(layout, flags) ==
    [offset |-> OfNat(layout[1], 4), archived_size |-> OfNat(layout[2], 4),
     size |-> OfNat(layout[3], 4), flags |-> flags]

\* An archive as parse leaves it: the table built, one block, the hash
\* table above.
Init ==
    /\ encryption_table = prepare_encryption_table
    /\ \E offset \in HeaderOffsets :
        archive_header = [offset |-> OfNat(offset, 8), sector_size_shift |-> 3]
    /\ hash_table_entries = HashEntries
    /\ \E layout \in BlockLayouts, set \in SUBSET Flags :
        block_table_entries = <<BlockEntry(layout, FlagsOf(set))>>
    /\ orig_input = Input
    /\ call = [op |-> "parse"]
    /\ ret = NoResult

\* mpq.read_mpq_file_sector(filename, force_decompress, orig_input), built
\* with or without overflow checks. The reader takes `&self` and changes
\* nothing, so every read is taken on the archive as parsed.
ReadFile ==
    /\ call.op = "parse"
    /\ \E filename \in FileNames, force_decompress \in BOOLEAN,
          overflow_checks \in BOOLEAN :
        /\ call' = [op |-> "read_mpq_file_sector", filename |-> filename,
                    force_decompress |-> force_decompress]
        /\ ret' = read_mpq_file_sector(encryption_table, archive_header,
                                       hash_table_entries, block_table_entries,
                                       filename, force_decompress, orig_input,
                                       overflow_checks)
    /\ UNCHANGED <<encryption_table, archive_header, hash_table_entries,
                   block_table_entries, orig_input>>

\* `Some(entry.clone())`: the fields of the entry, in the order of the
\* struct.
Found(entry) ==
    [kind |-> "Some", tail |-> <<>>,
     data |-> entry.hash_a \o entry.hash_b \o entry.locale \o entry.platform
              \o entry.block_table_index,
     why |-> ""]

\* mpq.get_hash_table_entry(filename)
GetHashTableEntry ==
    /\ call.op = "parse"
    /\ \E filename \in FileNames :
        /\ call' = [op |-> "get_hash_table_entry", filename |-> filename]
        /\ ret' = LET found == get_hash_table_entry(encryption_table,
                                                    hash_table_entries, filename)
                  IN  IF found.kind = "Some" THEN Found(found.entry)
                      ELSE IF found.kind = "None" THEN NoResult
                      ELSE found
    /\ UNCHANGED <<encryption_table, archive_header, hash_table_entries,
                   block_table_entries, orig_input>>

\* The payloads handed to the decompressor: none, a plaintext of no byte
\* and one of two, a zlib and a bzip2 stream, a zlib stream that is corrupt,
\* and the tags 0x08, 0x20 and 0x12 that no arm of the match has.
Payloads ==
    { <<>>, <<0>>, <<0, 65, 66>>, <<2, 3, 65>>, <<16, 65, 3>>, <<2, 1>>,
      <<8, 1, 2>>, <<32>>, <<18, 3, 65>> }

\* MPQ::decompress(input)
Decompress ==
    /\ call.op = "parse"
    /\ \E input \in Payloads :
        /\ call' = [op |-> "decompress", input |-> input]
        /\ ret' = decompress(input)
    /\ UNCHANGED <<encryption_table, archive_header, hash_table_entries,
                   block_table_entries, orig_input>>

Next == ReadFile \/ GetHashTableEntry \/ Decompress

Spec == Init /\ [][Next]_vars

(***************************************************************************)
(* The reader against the format: which block a name stands for, which     *)
(* bits its flags have and which bytes of the buffer are its own           *)
(***************************************************************************)

Reads == call.op = "read_mpq_file_sector"

\* The hashes of the names read, under the table of every archive.
NameHashes ==
    [filename \in FileNames |->
        [hash_type \in {HashA, HashB} |-> HashOf(filename, hash_type)]]

NameHash(hash_type) == NameHashes[call.filename][hash_type]

\* The places of the hash table that hold both hashes of the name read.
Places ==
    LET hash_a == NameHash(HashA)
        hash_b == NameHash(HashB)
    IN  {i \in 1..Len(hash_table_entries) :
            /\ hash_table_entries[i].hash_a = hash_a
            /\ hash_table_entries[i].hash_b = hash_b}

\* The places that hold the first hash of the name read.
HalfPlaces ==
    LET hash_a == NameHash(HashA)
    IN  {i \in 1..Len(hash_table_entries) : hash_table_entries[i].hash_a = hash_a}

FirstPlace == CHOOSE i \in Places : \A j \in Places : i <= j

\* The name read has an entry, and the entry a block.
HasBlock ==
    /\ Reads
    /\ Places # {}
    /\ hash_table_entries[FirstPlace].block_table_index[1] < Len(block_table_entries)
    /\ SubSeq(hash_table_entries[FirstPlace].block_table_index, 2, 4) = <<0, 0, 0>>

TheBlock ==
    block_table_entries[hash_table_entries[FirstPlace].block_table_index[1] + 1]

\* The bits of the flags, read from the bytes: 0x80000000, 0x00010000,
\* 0x01000000 and 0x00000200.
BitExists == TheBlock.flags[4] >= 128
BitEncrypted == TheBlock.flags[3] % 2 = 1
BitSingleUnit == TheBlock.flags[4] % 2 = 1
BitCompress == (TheBlock.flags[2] \div 2) % 2 = 1

\* The bytes of the block, at base + offset, and whether the buffer has them.
BlobStart == ToNat(archive_header.offset) + ToNat(TheBlock.offset)
BlobEnd == BlobStart + ToNat(TheBlock.archived_size)
Blob == SubSeq(orig_input, BlobStart + 1, BlobEnd)

\* A block of a single unit that is there to read.
SingleUnitBlock ==
    /\ HasBlock
    /\ BitExists
    /\ ~BitEncrypted
    /\ ToNat(TheBlock.archived_size) > 0
    /\ BitSingleUnit
    /\ BlobEnd <= Len(orig_input)

ToDecompress ==
    \/ BitCompress /\ call.force_decompress
    \/ ToNat(TheBlock.size) > ToNat(TheBlock.archived_size)

\* C7: for a block whose EXISTS flag is clear or whose archived_size is 0,
\* the reader returns Ok with no bytes and the whole input as remainder,
\* whatever the other flags and the offset are.
C7_DeletedOrEmpty ==
    (HasBlock /\ (~BitExists \/ ToNat(TheBlock.archived_size) = 0))
    => ret = Ok(orig_input, <<>>)

\* A deleted block with the other flags set and its offset beyond the
\* buffer, read as empty.
C7_DeletedBeyondBuffer ==
    /\ HasBlock
    /\ ~BitExists /\ BitEncrypted /\ BitSingleUnit /\ BitCompress
    /\ ToNat(TheBlock.archived_size) > 0
    /\ BlobStart > Len(orig_input)
    /\ ret = Ok(orig_input, <<>>)

\* C8: a read of a name of which the hash table has no entry with both
\* hashes returns Ok with no bytes and the whole input as remainder.
C8_NameNotFound == (Reads /\ Places = {}) => ret = Ok(orig_input, <<>>)

\* A name of which the table holds the first hash alone, over a block that
\* has bytes to give.
C8_HalfFound ==
    /\ Reads
    /\ Places = {}
    /\ HalfPlaces # {}
    /\ block_table_entries[1].flags = FlagsOf({MPQ_FILE_EXISTS, MPQ_FILE_SINGLE_UNIT})
    /\ block_table_entries[1].size = OfNat(12, 4)
    /\ block_table_entries[1].archived_size = OfNat(4, 4)
    /\ ret = Ok(orig_input, <<>>)

\* C9: a single-unit block that is not to be decompressed is returned as
\* the archived_size bytes at base + offset, verbatim.
C9_StoredVerbatim ==
    (SingleUnitBlock /\ ~ToDecompress) => ret.kind = "Ok" /\ ret.data = Blob

\* C10: a single-unit block is decompressed as a whole when COMPRESS is set
\* and force_decompress is given, or when size > archived_size, and in no
\* other case; the reader then returns what the decompressor makes of the
\* archived_size bytes at base + offset.
C10_Decompressed ==
    (SingleUnitBlock /\ ToDecompress)
    => LET decompressed == decompress(Blob)
       IN  IF decompressed.kind = "Ok"
           THEN ret.kind = "Ok" /\ ret.data = decompressed.data
           ELSE ret = decompressed

\* A block that is not marked compressed and is larger than its archived
\* bytes, decompressed without force_decompress.
C10_LargerThanArchived ==
    /\ SingleUnitBlock
    /\ ~BitCompress
    /\ ~call.force_decompress
    /\ ToNat(TheBlock.size) > ToNat(TheBlock.archived_size)
    /\ ret.kind = "Ok"
    /\ ret.data = <<65, 66, 67>>

(***************************************************************************)
(* The sectors of a block as the format lays them out                      *)
(***************************************************************************)

\* A block of several sectors that is there to read.
MultiSectorBlock ==
    /\ HasBlock
    /\ BitExists
    /\ ~BitEncrypted
    /\ ToNat(TheBlock.archived_size) > 0
    /\ ~BitSingleUnit
    /\ BlobEnd <= Len(orig_input)

BitSectorCrc == (TheBlock.flags[4] \div 4) % 2 = 1

\* N = floor(size / S) + 1 with S = 512 << sector_size_shift.
SectorCount ==
    (ToNat(TheBlock.size) \div (512 * 2^archive_header.sector_size_shift)) + 1

\* The positions at the head of the block: N + 1 of them, and one more for
\* the CRC sector.
PositionCount == SectorCount + 1 + (IF BitSectorCrc THEN 1 ELSE 0)

PositionAt(i) == ToNat(SubSeq(Blob, 4 * i - 3, 4 * i))

\* The table lies in the block and its positions are in order and in the
\* block.
PositionsUsable ==
    /\ 4 * PositionCount <= Len(Blob)
    /\ \A i \in 1..PositionCount : SubSeq(Blob, 4 * i - 3, 4 * i)[4] < 128
    /\ \A i \in 1..(PositionCount - 1) : PositionAt(i) <= PositionAt(i + 1)
    /\ PositionAt(PositionCount) <= Len(Blob)

SectorAt(i) == SubSeq(Blob, PositionAt(i) + 1, PositionAt(i + 1))

\* What a sector may give: its bytes, or what the decompressor makes of them.
SectorReadings(i) ==
    LET decompressed == decompress(SectorAt(i))
    IN  {SectorAt(i)} \cup
        (IF decompressed.kind = "Ok" THEN {decompressed.data} ELSE {})

\* The concatenations of one reading of each of the sectors i, ..., N.
RECURSIVE Concatenations(_)
Concatenations(i) ==
    IF i > SectorCount THEN {<<>>}
    ELSE {head \o rest : head \in SectorReadings(i), rest \in Concatenations(i + 1)}

\* C11: a block of several sectors (EXISTS set, ENCRYPTED clear,
\* archived_size > 0, SINGLE_UNIT clear) with a usable position table is
\* returned as the concatenation, in order, of its N sectors, each
\* decompressed or copied raw, and is not empty when the sectors are not.
C11_SectorsInOrder ==
    (MultiSectorBlock /\ PositionsUsable)
    => /\ ret.kind = "Ok"
       /\ ret.data \in Concatenations(1)
       /\ (\A i \in 1..SectorCount : SectorAt(i) # <<>>) => ret.data # <<>>

(***************************************************************************)
(* The lookup of a name                                                    *)
(***************************************************************************)

Looks == call.op = "get_hash_table_entry"

EmptySlots ==
    {i \in 1..Len(hash_table_entries) :
        hash_table_entries[i].block_table_index = U32(255, 255, 255, 255)}

DeletedSlots ==
    {i \in 1..Len(hash_table_entries) :
        hash_table_entries[i].block_table_index = U32(255, 255, 255, 254)}

\* The places of the name read that a search ending at the first empty slot
\* comes to, the deleted slots left out.
PlacesInReach ==
    {i \in Places \ DeletedSlots : \A j \in EmptySlots : i < j}

\* C13: the lookup of a name ends, with None, at the first slot of the table
\* whose block_table_index is 0xFFFFFFFF: an entry behind that slot is not
\* returned, nor is an entry whose own index is 0xFFFFFFFF; a deleted slot
\* (0xFFFFFFFE) is passed over and does not end the search.
C13_EndsAtEmptySlot ==
    Looks =>
        IF PlacesInReach = {} THEN ret.kind = "None"
        ELSE /\ ret.kind = "Some"
             /\ \E i \in PlacesInReach :
                 /\ \A j \in PlacesInReach : i <= j
                 /\ ret.data = Found(hash_table_entries[i]).data

(***************************************************************************)
(* What the reader and the decompressor do not support                     *)
(***************************************************************************)

\* C14: a block with EXISTS set, archived_size > 0 and ENCRYPTED set makes
\* the reader return the error UnsupportedEncryptedFile to its caller, with
\* no plaintext, whatever SINGLE_UNIT, COMPRESS and force_decompress are.
C14_EncryptedIsAnError ==
    (/\ HasBlock
     /\ BitExists
     /\ ToNat(TheBlock.archived_size) > 0
     /\ BitEncrypted
     /\ BlobEnd <= Len(orig_input))
    => /\ ret.kind = "Err"
       /\ ret.why = "UnsupportedEncryptedFile"
       /\ ret.data = <<>>

Decompresses == call.op = "decompress"

\* C15: the decompressor dispatches on the first byte of its payload: tag 0
\* returns the bytes after the tag as they are, tags 2 and 16 return what
\* the zlib and the bzip2 decoder make of them, every other tag is the error
\* UnsupportedCompression, and a payload of no byte is an error as well.
C15_DispatchOnTag ==
    Decompresses =>
        LET input == call.input
        IN  IF input = <<>> THEN ret.kind = "Err"
            ELSE IF input[1] = COMPRESSION_PLAINTEXT
            THEN ret = Ok(Tail(input), Tail(input))
            ELSE IF input[1] = COMPRESSION_ZLIB
            THEN ret.kind = "Ok" => ret.data = zlib_read_to_end(Tail(input)).data
            ELSE IF input[1] = COMPRESSION_BZ2
            THEN ret.kind = "Ok" => ret.data = bz2_read_to_end(Tail(input)).data
            ELSE /\ ret.kind = "Err"
                 /\ ret.why = "UnsupportedCompression"

(***************************************************************************)
(* Several reads of one archive, one after the other                       *)
(***************************************************************************)

\* The hash table of an archive of two files, "a" and ".".
SessionHashEntries ==
    << HashEntry(HashOf(<<LatinSmallA>>, HashA), HashOf(<<LatinSmallA>>, HashB),
                 U32(0, 0, 0, 0)),
       HashEntry(HashOf(<<FullStop>>, HashA), HashOf(<<FullStop>>, HashB),
                 U32(1, 0, 0, 0)) >>

\* The block of ".": a single unit of four bytes that are the tag 0 and
\* three bytes of plaintext.
SupportedBlock ==
    BlockEntry(<<8, 4, 12>>, FlagsOf({MPQ_FILE_EXISTS, MPQ_FILE_SINGLE_UNIT}))

\* The block of "a" is any single unit, encrypted or not, compressed or not.
InitSession ==
    /\ encryption_table = prepare_encryption_table
    /\ \E offset \in HeaderOffsets :
        archive_header = [offset |-> OfNat(offset, 8), sector_size_shift |-> 3]
    /\ hash_table_entries = SessionHashEntries
    /\ \E layout \in BlockLayouts,
          set \in SUBSET {MPQ_FILE_COMPRESS, MPQ_FILE_ENCRYPTED, MPQ_FILE_SECTOR_CRC} :
        block_table_entries =
            << BlockEntry(layout,
                          FlagsOf(set \cup {MPQ_FILE_EXISTS, MPQ_FILE_SINGLE_UNIT})),
               SupportedBlock >>
    /\ orig_input = Input
    /\ call = [op |-> "parse"]
    /\ ret = NoResult

\* The next read of a caller that reads file after file. A panic of the
\* reader unwinds through the caller, which makes no call after it.
ReadAgain(filename) ==
    /\ call.op = "read_mpq_file_sector"
    /\ ret.kind # "Panic"
    /\ \E force_decompress \in BOOLEAN, overflow_checks \in BOOLEAN :
        /\ call' = [op |-> "read_mpq_file_sector", filename |-> filename,
                    force_decompress |-> force_decompress]
        /\ ret' = read_mpq_file_sector(encryption_table, archive_header,
                                       hash_table_entries, block_table_entries,
                                       filename, force_decompress, orig_input,
                                       overflow_checks)
    /\ UNCHANGED <<encryption_table, archive_header, hash_table_entries,
                   block_table_entries, orig_input>>

ReadAnother == \E filename \in FileNames : ReadAgain(filename)

NextSession == ReadFile \/ ReadAnother

SpecSession == InitSession /\ [][NextSession]_vars

\* The read of a file whose block is encrypted or has a tag the decompressor
\* does not know.
UnsupportedRead ==
    /\ HasBlock
    /\ BitExists
    /\ ToNat(TheBlock.archived_size) > 0
    /\ BlobEnd <= Len(orig_input)
    /\ \/ BitEncrypted
       \/ /\ BitSingleUnit
          /\ ToDecompress
          /\ Blob[1] \notin {COMPRESSION_PLAINTEXT, COMPRESSION_ZLIB, COMPRESSION_BZ2}

\* The read of a file of plaintext, with the bytes of the file as its result.
SupportedRead ==
    /\ HasBlock
    /\ TheBlock = SupportedBlock
    /\ ret.kind = "Ok"
    /\ ret.data = Tail(Blob)

\* C16: a read that fails on an unknown compression tag or on the ENCRYPTED
\* flag is a failure of that read only: it comes back to the caller as an
\* error, the archive is as it was, and the caller can go on to read
\* another, supported file of the archive and get that file's bytes.
C16_FailureIsLocal ==
    /\ UnsupportedRead
        => /\ ret.kind = "Err"
           /\ ENABLED ReadAgain(<<FullStop>>)
    /\ (Reads /\ HasBlock /\ TheBlock = SupportedBlock) => SupportedRead

(***************************************************************************)
(* The headers (parser/mod.rs, read_headers)                               *)
(***************************************************************************)

MPQ_ARCHIVE_HEADER_TYPE == 26
MPQ_USER_DATA_HEADER_TYPE == 27

\* b"MPQ"
Magic == <<77, 80, 81>>

\* The conversion of a nom error into MPQParserError::ByteAligned.
ByteAligned(result) == IF result.kind = "Err" THEN Err("ByteAligned") ELSE result

\* `tag(b"MPQ")`; a buffer too short for the tag is an error of the tag.
validate_magic(input) ==
    IF Len(input) >= Len(Magic) /\ SubSeq(input, 1, Len(Magic)) = Magic
    THEN Ok(SubSeq(input, Len(Magic) + 1, Len(input)), Magic)
    ELSE ByteAligned(Err("Tag"))

\* `take(count)` of a count held in a u32.
Take(input, count) ==
    IF Lt(OfNat(Len(input), 4), count) THEN Err("Eof")
    ELSE Ok(SubSeq(input, ToNat(count) + 1, Len(input)),
            SubSeq(input, 1, ToNat(count)))

\* impl From<&[u8]> for MPQSectionType
MPQSectionType(input) ==
    IF Len(input) # 1 THEN "Unknown"
    ELSE IF input[1] = MPQ_ARCHIVE_HEADER_TYPE THEN "Header"
    ELSE IF input[1] = MPQ_USER_DATA_HEADER_TYPE THEN "UserData"
    ELSE "Unknown"

get_header_type(input) ==
    LET magic == validate_magic(input)
    IN  IF magic.kind # "Ok" THEN magic
        ELSE LET mpq_type == ByteAligned(Take(magic.tail, OfNat(1, 4)))
             IN  IF mpq_type.kind # "Ok" THEN mpq_type
                 ELSE Ok(mpq_type.tail, MPQSectionType(mpq_type.data))

\* Little-endian fields of the widths given, one after the other.
RECURSIVE Fields(_, _)
Fields(input, widths) ==
    IF widths = <<>> THEN Ok(input, <<>>)
    ELSE IF Len(input) < Head(widths) THEN Err("Eof")
    ELSE LET rest == Fields(SubSeq(input, Head(widths) + 1, Len(input)), Tail(widths))
         IN  IF rest.kind # "Ok" THEN rest
             ELSE Ok(rest.tail, <<SubSeq(input, 1, Head(widths))>> \o rest.data)

\* An i64 and two i16.
MPQFileHeaderExt_parse(input) ==
    LET fields == Fields(input, <<8, 2, 2>>)
    IN  IF fields.kind # "Ok" THEN fields
        ELSE Ok(fields.tail,
                [extended_block_table_offset |-> fields.data[1],
                 hash_table_offset_high |-> fields.data[2],
                 block_table_offset_high |-> fields.data[3]])

\* None is the empty tuple, Some(ext) the tuple of ext.
parse_extended_header_if_needed(input, format_version) ==
    IF format_version # 1 THEN Ok(input, <<>>)
    ELSE LET extended_file_header == MPQFileHeaderExt_parse(input)
         IN  IF extended_file_header.kind # "Ok" THEN extended_file_header
             ELSE Ok(extended_file_header.tail, <<extended_file_header.data>>)

\* MPQFileHeader::parse: two u32, two u16, four u32, and the extended
\* header if needed.
MPQFileHeader_parse(input, offset) ==
    LET fields == Fields(input, <<4, 4, 2, 2, 4, 4, 4, 4>>)
    IN  IF fields.kind # "Ok" THEN fields
        ELSE LET format_version == ToNat(fields.data[3])
                 extended_file_header ==
                     parse_extended_header_if_needed(fields.tail, format_version)
             IN  IF extended_file_header.kind # "Ok" THEN extended_file_header
                 ELSE Ok(extended_file_header.tail,
                         [header_size |-> fields.data[1],
                          archive_size |-> fields.data[2],
                          format_version |-> format_version,
                          sector_size_shift |-> ToNat(fields.data[4]),
                          hash_table_offset |-> fields.data[5],
                          block_table_offset |-> fields.data[6],
                          hash_table_entries |-> fields.data[7],
                          block_table_entries |-> fields.data[8],
                          extended_file_header |-> extended_file_header.data,
                          offset |-> offset])

\* On a buffer given byte by byte: the sum user_data_header_size + 16 is
\* taken after the content was, so the size is no more than the length of
\* the buffer and the u32 does not wrap.
consume_until_header_offset(input, user_data_header_size, archive_header_offset) ==
    LET curr_read_byte_count == OfNat(16, 4)
        read == Add(user_data_header_size, curr_read_byte_count)
    IN  IF Lt(archive_header_offset, read)
        THEN Panic("Invalid archive_header_offset")
        ELSE Take(input, Sub(archive_header_offset, read))

MPQUserData_parse(input) ==
    LET fields == Fields(input, <<4, 4, 4>>)
    IN  IF fields.kind # "Ok" THEN fields
        ELSE LET content == Take(fields.tail, fields.data[3])
             IN  IF content.kind # "Ok" THEN content
                 ELSE LET padding == consume_until_header_offset(content.tail,
                                         fields.data[3], fields.data[2])
                      IN  IF padding.kind # "Ok" THEN padding
                          ELSE Ok(padding.tail,
                                  [user_data_size |-> fields.data[1],
                                   archive_header_offset |-> fields.data[2],
                                   user_data_header_size |-> fields.data[3],
                                   content |-> content.data])

\* Ok((input, (archive_header, user_data))): the header and the user data,
\* None the empty tuple.
read_headers(input) ==
    LET first == get_header_type(input)
    IN  IF first.kind # "Ok" THEN first
        ELSE IF first.data = "UserData"
        THEN LET parsed_user_data == ByteAligned(MPQUserData_parse(first.tail))
             IN  IF parsed_user_data.kind # "Ok" THEN parsed_user_data
                 ELSE LET second == get_header_type(parsed_user_data.tail)
                      IN  IF second.kind # "Ok" THEN second
                          ELSE IF second.data # "Header"
                          THEN Panic("assertion failed: MPQSectionType::Header == mpq_type")
                          ELSE LET file_header ==
                                       ByteAligned(MPQFileHeader_parse(second.tail,
                                           ZeroExt(parsed_user_data.data.archive_header_offset, 8)))
                               IN  IF file_header.kind # "Ok" THEN file_header
                                   ELSE Ok(file_header.tail,
                                           <<file_header.data, <<parsed_user_data.data>> >>)
        ELSE IF first.data = "Header"
        THEN LET file_header == ByteAligned(MPQFileHeader_parse(first.tail, OfNat(0, 8)))
             IN  IF file_header.kind # "Ok" THEN file_header
                 ELSE Ok(file_header.tail, <<file_header.data, <<>> >>)
        ELSE Err("MissingArchiveHeader")

\* The buffers read. The fixed fields are those of the test of the header,
\* with the format version asked for.
FixedFields(format_version) ==
    << 208, 0, 0, 0,   207, 163, 3, 0,   format_version, 0,   5, 0,
       191, 160, 3, 0,   191, 162, 3, 0,   1, 0, 0, 0,   2, 0, 0, 0 >>

ExtendedFields == <<1, 2, 3, 4, 5, 6, 7, 8,   9, 10,   11, 12>>

FormatVersions == 0..3

\* What follows the fixed fields: nothing, the extended fields, five bytes
\* of them, or the extended fields and a byte of the archive.
Trailers ==
    {<<>>, ExtendedFields, SubSeq(ExtendedFields, 1, 5), ExtendedFields \o <<99>>}

ArchiveSections ==
    {Magic \o <<MPQ_ARCHIVE_HEADER_TYPE>> \o FixedFields(format_version) \o trailer :
        format_version \in FormatVersions, trailer \in Trailers}

\* A user data section of the header offset and content size given, with
\* the content and the padding up to the offset.
UserSection(archive_header_offset, user_data_header_size) ==
    LET end == IF archive_header_offset > user_data_header_size + 16
               THEN archive_header_offset ELSE user_data_header_size + 16
    IN  Magic \o <<MPQ_USER_DATA_HEADER_TYPE>> \o OfNat(0, 4)
        \o OfNat(archive_header_offset, 4) \o OfNat(user_data_header_size, 4)
        \o Bytes([i \in 1..(end - 16) |-> 190])

UserSections ==
    {UserSection(archive_header_offset, user_data_header_size) :
        archive_header_offset \in {16, 20, 24, 40}, user_data_header_size \in {0, 4}}

\* What follows the user data: nothing, an archive header, a second user
\* data header, a section of no known type, or bytes that are no section.
Followers ==
    {<<>>, Magic \o <<MPQ_USER_DATA_HEADER_TYPE>>, Magic \o <<0>>, <<1, 2, 3, 4>>}
    \cup ArchiveSections

\* Buffers of a wrong or short magic and of every kind of fourth byte.
Prefixes ==
    {magic \o mpq_type \o body :
        magic \in {Magic, <<77, 80, 113>>, <<0, 80, 81>>, <<77, 80>>, <<>>},
        mpq_type \in {<<MPQ_ARCHIVE_HEADER_TYPE>>, <<MPQ_USER_DATA_HEADER_TYPE>>,
                      <<0>>, <<28>>, <<>>},
        body \in {<<>>, FixedFields(1) \o ExtendedFields}}

HeaderInputs ==
    Prefixes \cup ArchiveSections
    \cup {section \o follower : section \in UserSections, follower \in Followers}

InitHeaders ==
    /\ encryption_table = prepare_encryption_table
    /\ archive_header = <<>>
    /\ hash_table_entries = <<>>
    /\ block_table_entries = <<>>
    /\ orig_input \in HeaderInputs
    /\ call = [op |-> "new"]
    /\ ret = NoResult

\* read_headers(orig_input), as parse calls it
ReadHeaders ==
    /\ call.op = "new"
    /\ call' = [op |-> "read_headers"]
    /\ ret' = read_headers(orig_input)
    /\ UNCHANGED <<encryption_table, archive_header, hash_table_entries,
                   block_table_entries, orig_input>>

\* MPQUserData::parse(input) on the bytes behind the magic of a user data
\* header; Some(user_data) is the tuple of it.
ParseUserData ==
    /\ call.op = "new"
    /\ LET first == get_header_type(orig_input)
       IN  /\ first.kind = "Ok"
           /\ first.data = "UserData"
           /\ LET user_data == MPQUserData_parse(first.tail)
              IN  ret' = IF user_data.kind = "Ok"
                         THEN Ok(user_data.tail, <<user_data.data>>)
                         ELSE user_data
    /\ call' = [op |-> "MPQUserData_parse"]
    /\ UNCHANGED <<encryption_table, archive_header, hash_table_entries,
                   block_table_entries, orig_input>>

\* `take(count)` on a buffer of which the length alone is known, both held
\* in a usize; what is left is returned in `tail`.
TakeOfLen(len, count) ==
    IF Lt(len, count) THEN Err("Eof") ELSE Ok(Sub(len, count), <<>>)

\* consume_until_header_offset on such a buffer. The sum
\* user_data_header_size + 16 is one of u32: it wraps in a build without
\* overflow checks and panics in one with them.
consume_until_header_offset_len(len, user_data_header_size, archive_header_offset, overflow_checks) ==
    LET curr_read_byte_count == OfNat(16, 4)
        read == Add(user_data_header_size, curr_read_byte_count)
    IN  IF overflow_checks /\ Lt(read, user_data_header_size)
        THEN Panic("attempt to add with overflow")
        ELSE IF Lt(archive_header_offset, read)
        THEN Panic("Invalid archive_header_offset")
        ELSE TakeOfLen(len, ZeroExt(Sub(archive_header_offset, read), 8))

\* MPQUserData::parse on a buffer of `len` bytes whose second and third
\* fields are given: the three fields, the content, the padding.
MPQUserData_parse_len(len, archive_header_offset, user_data_header_size, overflow_checks) ==
    LET fields == TakeOfLen(len, OfNat(12, 8))
    IN  IF fields.kind # "Ok" THEN fields
        ELSE LET content == TakeOfLen(fields.tail, ZeroExt(user_data_header_size, 8))
             IN  IF content.kind # "Ok" THEN content
                 ELSE consume_until_header_offset_len(content.tail,
                          user_data_header_size, archive_header_offset,
                          overflow_checks)

\* Lengths of the buffers behind the magic, up to one of 4 GiB and 28
\* bytes, and the fields read from them.
UserDataLengths ==
    {OfNat(8, 8), OfNat(12, 8), OfNat(20, 8), OfNat(36, 8),
     <<28, 0, 0, 0, 1, 0, 0, 0>>}
HeaderOffsetsGiven ==
    {OfNat(16, 4), OfNat(24, 4), OfNat(40, 4), U32(\hFF, \hFF, \hFF, \hFF)}
ContentSizesGiven ==
    {OfNat(0, 4), OfNat(4, 4), OfNat(8, 4), U32(\hFF, \hFF, \hFF, \hF0),
     U32(\hFF, \hFF, \hFF, \hFF)}

ParseUserDataLen ==
    /\ call.op = "new"
    /\ \E len \in UserDataLengths, archive_header_offset \in HeaderOffsetsGiven,
          user_data_header_size \in ContentSizesGiven, overflow_checks \in BOOLEAN :
        /\ call' = [op |-> "MPQUserData_parse_len", len |-> len,
                    archive_header_offset |-> archive_header_offset,
                    user_data_header_size |-> user_data_header_size]
        /\ ret' = MPQUserData_parse_len(len, archive_header_offset,
                                        user_data_header_size, overflow_checks)
    /\ UNCHANGED <<encryption_table, archive_header, hash_table_entries,
                   block_table_entries, orig_input>>

NextHeaders == ReadHeaders \/ ParseUserData \/ ParseUserDataLen

SpecHeaders == InitHeaders /\ [][NextHeaders]_vars

(***************************************************************************)
(* The headers against the format                                          *)
(***************************************************************************)

ReadsHeaders == call.op = "read_headers"

\* The buffer begins with "MPQ" and a fourth byte.
HasMagic == Len(orig_input) >= 4 /\ SubSeq(orig_input, 1, 3) = <<77, 80, 81>>

\* C17: a buffer of "MPQ" and the byte 0x1A is read as beginning with the
\* archive header, one of "MPQ" and 0x1B as beginning with the user data;
\* for any other first four bytes the reading of the headers fails with the
\* error UnexpectedSection.
C17_SectionDiscrimination ==
    (ReadsHeaders /\ Len(orig_input) >= 4) =>
        IF HasMagic /\ orig_input[4] = 26
        THEN ret.kind = "Ok" => ret.data[2] = <<>> /\ ret.data[1].offset = OfNat(0, 8)
        ELSE IF HasMagic /\ orig_input[4] = 27
        THEN ret.kind = "Ok" => ret.data[2] # <<>>
        ELSE ret.kind = "Err" /\ ret.why = "UnexpectedSection"

\* The offset and the size that a user data header gives.
GivenHeaderOffset == ToNat(SubSeq(orig_input, 9, 12))
GivenContentSize == ToNat(SubSeq(orig_input, 13, 16))

\* The buffer is a whole user data section and has no archive header at the
\* offset the section gives.
OnlyUserData ==
    /\ HasMagic
    /\ orig_input[4] = 27
    /\ Len(orig_input) >= 16
    /\ GivenHeaderOffset >= GivenContentSize + 16
    /\ Len(orig_input) >= GivenContentSize + 16
    /\ \/ Len(orig_input) < GivenHeaderOffset + 4
       \/ SubSeq(orig_input, GivenHeaderOffset + 1, GivenHeaderOffset + 4)
              # <<77, 80, 81, 26>>

\* C18: a buffer that holds a user data header and no archive header behind
\* it makes the reading of the headers fail with the error
\* MissingArchiveHeader.
C18_OnlyUserData ==
    (ReadsHeaders /\ OnlyUserData)
        => ret.kind = "Err" /\ ret.why = "MissingArchiveHeader"

\* The bytes of the buffer behind the eight fixed fields of the header read.
BehindFixedFields ==
    SubSeq(orig_input, ToNat(ret.data[1].offset) + 33, Len(orig_input))

\* C19: an archive header that is read has the extended fields iff its
\* format_version is 1 or more; they are the 12 bytes behind the eight
\* fixed fields, and when there are none no byte behind the fixed fields is
\* consumed.
C19_ExtendedFromVersionOne ==
    (ReadsHeaders /\ ret.kind = "Ok") =>
        LET header == ret.data[1]
        IN  IF header.format_version >= 1
            THEN /\ Len(BehindFixedFields) >= 12
                 /\ header.extended_file_header =
                        << [extended_block_table_offset |-> SubSeq(BehindFixedFields, 1, 8),
                            hash_table_offset_high |-> SubSeq(BehindFixedFields, 9, 10),
                            block_table_offset_high |-> SubSeq(BehindFixedFields, 11, 12)] >>
                 /\ ret.tail = SubSeq(BehindFixedFields, 13, Len(BehindFixedFields))
            ELSE /\ header.extended_file_header = <<>>
                 /\ ret.tail = BehindFixedFields

(***************************************************************************)
(* The list of the files (lib.rs, MPQ::get_files)                          *)
(***************************************************************************)

\* "(listfile)"
ListfileName == <<40, 108, 105, 115, 116, 102, 105, 108, 101, 41>>

LineFeed == 10
CarriageReturn == 13

\* std::str::from_utf8 on the buffers of the model, whose bytes are ASCII
\* but for the byte 0xFF, which no UTF-8 sequence has: the characters are
\* the bytes.
from_utf8(bytes) ==
    IF \A i \in 1..Len(bytes) : bytes[i] < 128 THEN Ok(<<>>, bytes)
    ELSE Err("Utf8Error")

\* A line without the carriage return that ends it.
StripCarriageReturn(line) ==
    IF line # <<>> /\ line[Len(line)] = CarriageReturn
    THEN SubSeq(line, 1, Len(line) - 1) ELSE line

\* str::lines: the lines end at a line feed, the carriage return before it
\* is not part of the line, and the last line needs no line feed.
RECURSIVE lines(_)
lines(val) ==
    IF val = <<>> THEN <<>>
    ELSE IF \E i \in 1..Len(val) : val[i] = LineFeed
    THEN LET end == CHOOSE i \in 1..Len(val) :
                        /\ val[i] = LineFeed
                        /\ \A j \in 1..(i - 1) : val[j] # LineFeed
         IN  <<StripCarriageReturn(SubSeq(val, 1, end - 1))>>
             \o lines(SubSeq(val, end + 1, Len(val)))
    ELSE <<StripCarriageReturn(val)>>

\* One round of `for filename in files`: the pair of the name to push, no
\* pair for a name without entry, or a panic.
FileOf(table, hash_entries, block_entries, filename) ==
    LET PairOfEntry(hash_entry) ==
            IF hash_entry.kind = "Panic" THEN hash_entry
            ELSE IF hash_entry.kind = "None" THEN Ok(<<>>, <<>>)
            ELSE LET index == hash_entry.entry.block_table_index
                 IN  IF ~Lt(index, OfNat(Len(block_entries), 4))
                     THEN Panic("index out of bounds")
                     ELSE Ok(<<>>, << <<filename,
                                       ZeroExt(block_entries[ToNat(index) + 1].size, 8)>> >>)
    IN  PairOfEntry(get_hash_table_entry(table, hash_entries, filename))

RECURSIVE FilesOf(_, _, _, _)
FilesOf(table, hash_entries, block_entries, files) ==
    IF files = <<>> THEN Ok(<<>>, <<>>)
    ELSE LET Push(file, rest) ==
                 IF file.kind # "Ok" THEN file
                 ELSE IF rest.kind # "Ok" THEN rest
                 ELSE Ok(<<>>, file.data \o rest.data)
         IN  Push(FileOf(table, hash_entries, block_entries, Head(files)),
                  FilesOf(table, hash_entries, block_entries, Tail(files)))

\* The pairs (filename, size), or the panic of the read, of the text or of
\* a name.
get_files(table, header, hash_entries, block_entries, input, overflow_checks) ==
    LET FilesOfText(val) ==
            IF val.kind # "Ok" THEN Panic("Invalid UTF-8 sequence")
            ELSE FilesOf(table, hash_entries, block_entries, lines(val.data))
        FilesOfRead(read) ==
            IF read.kind = "Panic" THEN read
            ELSE IF read.kind = "Err" THEN Panic("Unable to read '(listfile)' sector")
            ELSE FilesOfText(from_utf8(read.data))
    IN  FilesOfRead(read_mpq_file_sector(table, header, hash_entries, block_entries,
                                         ListfileName, FALSE, input, overflow_checks))

\* The archives listed: the names are four times one character, the list
\* has up to MaxLines of them.
MaxLines == 3

ListedName(ch) == <<ch, ch, ch, ch>>

ListedNames == {ListedName(LatinSmallA), ListedName(LatinCapitalZ), ListedName(FullStop)}

Listings == UNION {[1..n -> ListedNames] : n \in 0..MaxLines}

\* The text of a list: the names, each but the last followed by the line
\* ending, and the last one too if the text ends with one.
RECURSIVE ListfileText(_, _, _)
ListfileText(listing, ending, ended) ==
    IF Len(listing) = 0 THEN <<>>
    ELSE IF Len(listing) = 1 THEN listing[1] \o (IF ended THEN ending ELSE <<>>)
    ELSE listing[1] \o ending \o ListfileText(Tail(listing), ending, ended)

\* The stream that the stand-in of zlib reads back as the bytes given: the
\* runs of the bytes as pairs (count, byte).
RECURSIVE Deflated(_)
Deflated(bytes) ==
    IF bytes = <<>> THEN <<>>
    ELSE LET run == CHOOSE n \in 1..Len(bytes) :
                        /\ \A i \in 1..n : bytes[i] = bytes[1]
                        /\ n = Len(bytes) \/ bytes[n + 1] # bytes[1]
         IN  <<run, bytes[1]>> \o Deflated(SubSeq(bytes, run + 1, Len(bytes)))

\* A file as a single unit: compressed when that gains a byte, else as it
\* is.
Compressible(text) == 1 + Len(Deflated(text)) < Len(text)

SingleUnitBlob(text) ==
    IF Compressible(text) THEN <<COMPRESSION_ZLIB>> \o Deflated(text) ELSE text

\* A file as one sector that is not compressed, behind its two positions.
SectorsBlob(text) == OfNat(8, 4) \o OfNat(8 + Len(text), 4) \o text

\* The block of the list, at the start of the buffer.
ListfileBlock(text, single_unit) ==
    IF single_unit
    THEN BlockEntry(<<0, Len(SingleUnitBlob(text)), Len(text)>>,
                    FlagsOf({MPQ_FILE_EXISTS, MPQ_FILE_SINGLE_UNIT}
                            \cup (IF Compressible(text) THEN {MPQ_FILE_COMPRESS} ELSE {})))
    ELSE BlockEntry(<<0, Len(SectorsBlob(text)), Len(text)>>, FlagsOf({MPQ_FILE_EXISTS}))

\* The hash table of the archives listed: an entry of the first hash of
\* "ZZZZ" and the second of "aaaa", the list, "aaaa" and "....".
FilesHashEntries ==
    << HashEntry(HashOf(ListedName(LatinCapitalZ), HashA),
                 HashOf(ListedName(LatinSmallA), HashB), U32(0, 0, 0, 1)),
       HashEntry(HashOf(ListfileName, HashA), HashOf(ListfileName, HashB),
                 U32(0, 0, 0, 0)),
       HashEntry(HashOf(ListedName(LatinSmallA), HashA),
                 HashOf(ListedName(LatinSmallA), HashB), U32(0, 0, 0, 1)),
       HashEntry(HashOf(ListedName(FullStop), HashA),
                 HashOf(ListedName(FullStop), HashB), U32(0, 0, 0, 2)) >>

InitFiles ==
    /\ encryption_table = prepare_encryption_table
    /\ archive_header = [offset |-> OfNat(0, 8), sector_size_shift |-> 3]
    /\ hash_table_entries = FilesHashEntries
    /\ \E listing \in Listings, ending \in {<<LineFeed>>, <<CarriageReturn, LineFeed>>},
          ended \in BOOLEAN, single_unit \in BOOLEAN :
        LET text == ListfileText(listing, ending, ended)
        IN  /\ block_table_entries =
                   << ListfileBlock(text, single_unit),
                      BlockEntry(<<0, 4, 3>>, FlagsOf({MPQ_FILE_EXISTS})),
                      BlockEntry(<<0, 4, 12>>, FlagsOf({MPQ_FILE_EXISTS})) >>
            /\ orig_input = (IF single_unit THEN SingleUnitBlob(text)
                             ELSE SectorsBlob(text)) \o <<0, 0, 0, 0>>
    /\ call = [op |-> "parse"]
    /\ ret = NoResult

\* mpq.get_files(orig_input), built with or without overflow checks.
GetFiles ==
    /\ call.op = "parse"
    /\ \E overflow_checks \in BOOLEAN :
        /\ call' = [op |-> "get_files"]
        /\ ret' = get_files(encryption_table, archive_header, hash_table_entries,
                            block_table_entries, orig_input, overflow_checks)
    /\ UNCHANGED <<encryption_table, archive_header, hash_table_entries,
                   block_table_entries, orig_input>>

NextFiles == GetFiles

SpecFiles == InitFiles /\ [][NextFiles]_vars

(***************************************************************************)
(* The list against the file it is made from                               *)
(***************************************************************************)

Lists == call.op = "get_files"

\* The file "(listfile)" as the archive holds it: the block of a single
\* unit decompressed if its size says so and verbatim if not, the block of
\* sectors as the sector between its two positions.
EmbeddedListfile ==
    LET block == block_table_entries[1]
        start == ToNat(archive_header.offset) + ToNat(block.offset)
        blob == SubSeq(orig_input, start + 1, start + ToNat(block.archived_size))
    IN  IF blob = <<>> THEN <<>>
        ELSE IF block.flags[4] % 2 = 1
        THEN IF ToNat(block.size) > ToNat(block.archived_size)
             THEN decompress(blob).data ELSE blob
        ELSE SubSeq(blob, ToNat(SubSeq(blob, 1, 4)) + 1, ToNat(SubSeq(blob, 5, 8)))

\* The places of the hash table that hold both hashes of a name.
PlacesOf(filename) ==
    LET hash_a == HashOf(filename, HashA)
        hash_b == HashOf(filename, HashB)
    IN  {i \in 1..Len(hash_table_entries) :
            /\ hash_table_entries[i].hash_a = hash_a
            /\ hash_table_entries[i].hash_b = hash_b}

\* The pair of a name that resolves, nothing for one that does not.
PairOf(filename) ==
    LET places == PlacesOf(filename)
    IN  IF places = {} THEN <<>>
        ELSE LET first == CHOOSE i \in places : \A j \in places : i <= j
                 index == ToNat(hash_table_entries[first].block_table_index)
             IN  << <<filename, ZeroExt(block_table_entries[index + 1].size, 8)>> >>

RECURSIVE PairsOf(_)
PairsOf(files) ==
    IF files = <<>> THEN <<>> ELSE PairOf(Head(files)) \o PairsOf(Tail(files))

\* C20: get_files returns, for the lines of the file "(listfile)" in their
\* order, the pair of the name and of the size of the block the name
\* resolves to, leaving out the lines whose name does not resolve and no
\* other, each name as often as the file has it.
C20_FilesOfListfile ==
    Lists => /\ ret.kind = "Ok"
             /\ ret.data = PairsOf(lines(EmbeddedListfile))

(***************************************************************************)
(* Reads of one archive by several threads                                 *)
(***************************************************************************)

Threads == {1, 2}

\* A reader that takes what it reads out of the archive.
TakenOut(field) == <<>>

\* What a field of the archive is after a call that holds the archive as
\* `&self`: the struct has no cell, lock or pointer to write through.
SharedRef(field) == field

ConcurrentNames == {ListedName(LatinSmallA), ListedName(LatinCapitalZ)}

\* The calls of a thread: a lookup, a read or the list.
ConcurrentCalls ==
    {[op |-> op, filename |-> filename, pc |-> "called"] :
        op \in {"get_hash_table_entry", "read_mpq_file_sector"},
        filename \in ConcurrentNames}
    \cup {[op |-> "get_files", filename |-> ListfileName, pc |-> "called"]}

\* What the call of a thread returns on an archive.
Returned(table, header, hash_entries, block_entries, input, c, overflow_checks) ==
    IF c.op = "get_hash_table_entry"
    THEN LET Lookup(found) ==
                 IF found.kind = "Some" THEN Found(found.entry)
                 ELSE IF found.kind = "None" THEN NoResult
                 ELSE found
         IN  Lookup(get_hash_table_entry(table, hash_entries, c.filename))
    ELSE IF c.op = "read_mpq_file_sector"
    THEN read_mpq_file_sector(table, header, hash_entries, block_entries,
                              c.filename, FALSE, input, overflow_checks)
    ELSE get_files(table, header, hash_entries, block_entries, input, overflow_checks)

\* An archive with a list of no or one name, shared by the threads.
InitConcurrent ==
    /\ encryption_table = prepare_encryption_table
    /\ archive_header = [offset |-> OfNat(0, 8), sector_size_shift |-> 3]
    /\ hash_table_entries = FilesHashEntries
    /\ \E listing \in {l \in Listings : Len(l) <= 1}, single_unit \in BOOLEAN :
        LET text == ListfileText(listing, <<LineFeed>>, FALSE)
        IN  /\ block_table_entries =
                   << ListfileBlock(text, single_unit),
                      BlockEntry(<<0, 4, 3>>, FlagsOf({MPQ_FILE_EXISTS})),
                      BlockEntry(<<0, 4, 12>>, FlagsOf({MPQ_FILE_EXISTS})) >>
            /\ orig_input = (IF single_unit THEN SingleUnitBlob(text)
                             ELSE SectorsBlob(text)) \o <<0, 0, 0, 0>>
    /\ call = [t \in Threads |-> [op |-> "idle", filename |-> <<>>, pc |-> "idle"]]
    /\ ret = [t \in Threads |-> NoResult]

\* A thread enters a call on the archive.
Begin(t) ==
    /\ call[t].pc = "idle"
    /\ \E c \in ConcurrentCalls : call' = [call EXCEPT ![t] = c]
    /\ UNCHANGED <<encryption_table, archive_header, hash_table_entries,
                   block_table_entries, orig_input, ret>>

\* The call of a thread runs on the archive as it is then, and returns.
Finish(t) ==
    /\ call[t].pc = "called"
    /\ \E overflow_checks \in BOOLEAN :
        ret' = [ret EXCEPT ![t] =
                   Returned(encryption_table, archive_header, hash_table_entries,
                            block_table_entries, orig_input, call[t], overflow_checks)]
    /\ call' = [call EXCEPT ![t].pc = "returned"]
    /\ encryption_table' = SharedRef(encryption_table)
    /\ archive_header' = SharedRef(archive_header)
    /\ hash_table_entries' = SharedRef(hash_table_entries)
    /\ block_table_entries' = SharedRef(block_table_entries)
    /\ UNCHANGED orig_input

NextConcurrent == \E t \in Threads : Begin(t) \/ Finish(t)

SpecConcurrent == InitConcurrent /\ [][NextConcurrent]_vars

HashIndices ==
    {call.hash_type * 256 + to_uppercase(call.location)[i] :
        i \in 1..Len(to_uppercase(call.location))}

\* C22: mpq_string_hash returns the error value UnhashableCharacter when an
\* index (domain << 8) + c of a character of the uppercased string is
\* outside 0..1279, and a 32-bit hash when every index is inside.
C22_UnhashableIsAnError ==
    call.op = "mpq_string_hash"
        => IF HashIndices \subseteq 0..1279
           THEN ret.kind = "Ok" /\ Len(ret.data) = 4
           ELSE ret = Err("UnhashableCharacter")


(***************************************************************************)
(* parse (parser/mod.rs): the headers, the two tables, the archive         *)
(***************************************************************************)

\* `&orig_input[offset..]`, the offset a usize.
SliceFrom(input, offset) ==
    IF Lt(OfNat(Len(input), 8), offset)
    THEN Panic("range start index out of range for slice")
    ELSE Ok(SubSeq(input, ToNat(offset) + 1, Len(input)), <<>>)

\* The table sought from the start of the buffer, whatever the header says
\* of its place.
SeekFromStart(header, table_offset) == ZeroExt(table_offset, 8)

\* The offset of a table in the buffer:
\* `archive_header.hash_table_offset as usize + archive_header.offset`.
SeekOffset(header, table_offset) == Add(ZeroExt(table_offset, 8), header.offset)

\* `take(count)` of a count held in a usize.
TakeUsize(input, count) ==
    IF Lt(OfNat(Len(input), 8), count) THEN Err("Eof")
    ELSE Ok(SubSeq(input, ToNat(count) + 1, Len(input)),
            SubSeq(input, 1, ToNat(count)))

\* `take(16usize * entries as usize)(&orig_input[table_offset..])?`
EncryptedTable(input, header, table_offset, entries) ==
    LET TakeTable(from) ==
            IF from.kind # "Ok" THEN from
            ELSE ByteAligned(TakeUsize(from.tail, Shl(ZeroExt(entries, 8), 4)))
    IN  TakeTable(SliceFrom(input, SeekOffset(header, table_offset)))

\* MPQHashTableEntry::parse: two u32, two u16 and a u32.
MPQHashTableEntry_parse(input) ==
    LET Entry(fields) ==
            IF fields.kind # "Ok" THEN fields
            ELSE Ok(fields.tail,
                    [hash_a |-> fields.data[1], hash_b |-> fields.data[2],
                     locale |-> fields.data[3], platform |-> fields.data[4],
                     block_table_index |-> fields.data[5]])
    IN  Entry(Fields(input, <<4, 4, 2, 2, 4>>))

\* MPQBlockTableEntry::parse: four u32.
MPQBlockTableEntry_parse(input) ==
    LET Entry(fields) ==
            IF fields.kind # "Ok" THEN fields
            ELSE Ok(fields.tail,
                    [offset |-> fields.data[1], archived_size |-> fields.data[2],
                     size |-> fields.data[3], flags |-> fields.data[4]])
    IN  Entry(Fields(input, <<4, 4, 4, 4>>))

\* The parser of the entries of a table, by the name of the struct.
ParseEntry(struct, input) ==
    IF struct = "MPQHashTableEntry" THEN MPQHashTableEntry_parse(input)
    ELSE MPQBlockTableEntry_parse(input)

\* nom's `count(parse, n)`: n entries one after the other, the first error
\* ending it.
RECURSIVE count(_, _, _)
count(struct, n, input) ==
    IF n = 0 THEN Ok(input, <<>>)
    ELSE LET Collect(first, rest) ==
                 IF rest.kind # "Ok" THEN rest
                 ELSE Ok(rest.tail, <<first.data>> \o rest.data)
             Counted(first) ==
                 IF first.kind # "Ok" THEN first
                 ELSE Collect(first, count(struct, n - 1, first.tail))
         IN  Counted(ParseEntry(struct, input))

\* `builder.mpq_data_decrypt(encrypted_table_data, key)`: the whole table
\* in one call.
DecryptTable(table, data, key) == mpq_data_decrypt(table, data, key)

\* The hash table: sought, taken, decrypted and split in entries. A failed
\* decryption is DecryptionDataWithKey, a failed entry IncompleteData.
ParseHashTable(table, input, header, key) ==
    LET Complete(entries) ==
            IF entries.kind = "Err" THEN Err("IncompleteData") ELSE entries
        Entries(decrypted_hash_table_data) ==
            IF decrypted_hash_table_data.kind = "Err"
            THEN Err("DecryptionDataWithKey")
            ELSE IF decrypted_hash_table_data.kind # "Ok"
            THEN decrypted_hash_table_data
            ELSE Complete(count("MPQHashTableEntry",
                                ToNat(header.hash_table_entries),
                                decrypted_hash_table_data.data))
        Decrypted(encrypted_hash_table_data) ==
            IF encrypted_hash_table_data.kind # "Ok" THEN encrypted_hash_table_data
            ELSE Entries(DecryptTable(table, encrypted_hash_table_data.data, key))
    IN  Decrypted(EncryptedTable(input, header, header.hash_table_offset,
                                 header.hash_table_entries))

\* The block table: the same, the error of the decryption passed on by `?`.
ParseBlockTable(table, input, header, key) ==
    LET Complete(entries) ==
            IF entries.kind = "Err" THEN Err("IncompleteData") ELSE entries
        Entries(decrypted_block_table_data) ==
            IF decrypted_block_table_data.kind # "Ok"
            THEN decrypted_block_table_data
            ELSE Complete(count("MPQBlockTableEntry",
                                ToNat(header.block_table_entries),
                                decrypted_block_table_data.data))
        Decrypted(encrypted_block_table_data) ==
            IF encrypted_block_table_data.kind # "Ok" THEN encrypted_block_table_data
            ELSE Entries(ByteAligned(DecryptTable(table,
                                                  encrypted_block_table_data.data,
                                                  key)))
    IN  Decrypted(EncryptedTable(input, header, header.block_table_offset,
                                 header.block_table_entries))

\* parse(orig_input): Ok((tail, mpq)), the archive returned as the tuple of
\* its header, its user data and its two tables; `tail` is that of the
\* headers.
parse(table, input) ==
    LET Build(headers, hash_table, block_table) ==
            IF block_table.kind # "Ok" THEN block_table
            ELSE Ok(headers.tail,
                    <<headers.data[1], headers.data[2],
                      hash_table.data, block_table.data>>)
        Tables(block_key, headers, hash_table) ==
            IF hash_table.kind # "Ok" THEN hash_table
            ELSE Build(headers, hash_table,
                       ParseBlockTable(table, input, headers.data[1],
                                       block_key.data))
        Archive(hash_key, block_key, headers) ==
            IF hash_key.kind # "Ok" THEN hash_key
            ELSE IF block_key.kind # "Ok" THEN block_key
            ELSE IF headers.kind # "Ok" THEN headers
            ELSE Tables(block_key, headers,
                        ParseHashTable(table, input, headers.data[1],
                                       hash_key.data))
    IN  Archive(hash_table_key(table), block_table_key(table), read_headers(input))


\* One table of a buffer of which only the lengths are known: `available`
\* bytes lie behind the offset of the table, the header announces `entries`
\* entries. The steps are those of ParseHashTable; `data` holds the number
\* of entries parsed.
parse_table_len(available, entries) ==
    IF available < 16 * entries THEN Err("ByteAligned")
    ELSE LET Entries(decrypted) ==
                 IF decrypted.kind # "Ok" THEN decrypted
                 ELSE IF decrypted.data[1] < 16 * entries THEN Err("IncompleteData")
                 ELSE Ok(<<decrypted.data[1] - 16 * entries>>, <<entries>>)
         IN  Entries(mpq_data_decrypt_len(16 * entries))

\* The tables of the archives parsed: the hash table entry of "a", which
\* names the block 0, and one of no name; a block of 3 bytes, a single unit
\* deflated from 9, 80 bytes behind the archive header. Both tables are encrypted under
\* their keys.
HashTablePlain ==
    Found(HashEntry(HashOf(<<LatinSmallA>>, HashA), HashOf(<<LatinSmallA>>, HashB),
                    U32(0, 0, 0, 0))).data
    \o U32(1, 2, 3, 4) \o U32(5, 6, 7, 8) \o <<9, 4>> \o <<0, 0>>
    \o U32(\hFF, \hFF, \hFF, \hFF)

BlockTablePlain ==
    U32(0, 0, 0, 80) \o U32(0, 0, 0, 3) \o U32(0, 0, 0, 9)
    \o U32(\h81, 0, 2, 0)

TablesOfArchive ==
    RefEncrypt(prepare_encryption_table, HashTablePlain,
               hash_table_key(prepare_encryption_table).data)
    \o RefEncrypt(prepare_encryption_table, BlockTablePlain,
                  block_table_key(prepare_encryption_table).data)

FileOfArchive ==
    <<COMPRESSION_ZLIB, 9, 65, 104, 105, 106, 107, 108, 109, 110, 111, 112>>

\* An archive of 92 bytes: the header of 32 bytes with the offsets and the
\* numbers of entries given, the hash table at 32, the block table at 64
\* and the file at 80.
ArchiveOf(hash_table_offset, hash_entries, block_table_offset, block_entries) ==
    Magic \o <<MPQ_ARCHIVE_HEADER_TYPE>> \o OfNat(32, 4) \o OfNat(92, 4)
    \o OfNat(0, 2) \o OfNat(3, 2)
    \o hash_table_offset \o block_table_offset \o hash_entries \o block_entries
    \o TablesOfArchive \o FileOfArchive

HashTableOffsets ==
    {OfNat(32, 4), OfNat(48, 4), OfNat(92, 4), OfNat(93, 4),
     U32(\hFF, \hFF, \hFF, \hFF)}
HashTableCounts ==
    {OfNat(0, 4), OfNat(1, 4), OfNat(2, 4), OfNat(4, 4), U32(\hFF, \hFF, \hFF, \hFF)}
BlockTableOffsets == {OfNat(64, 4), OfNat(80, 4), OfNat(93, 4)}
BlockTableCounts == {OfNat(0, 4), OfNat(1, 4), OfNat(2, 4)}

\* Nothing, or a user data section, before the archive header.
BeforeArchive == {<<>>, UserSection(16, 0), UserSection(24, 4)}

ParseInputs ==
    {before \o ArchiveOf(hash_table_offset, hash_entries, block_table_offset,
                         block_entries) :
        before \in BeforeArchive,
        hash_table_offset \in HashTableOffsets, hash_entries \in HashTableCounts,
        block_table_offset \in BlockTableOffsets, block_entries \in BlockTableCounts}

\* Lengths of tables and of what the buffer holds behind their offset, the
\* short ones and some beyond 2^28 bytes.
TableCounts == {0, 1, 2, 16777216, 16777217, 16777219}
TableRooms == {0, 16, 32, 40, 268435456, 268435472, 268435504}

\* The builder of parse: no header and no table yet.
InitParse ==
    /\ encryption_table = prepare_encryption_table
    /\ archive_header = <<>>
    /\ hash_table_entries = <<>>
    /\ block_table_entries = <<>>
    /\ orig_input \in ParseInputs
    /\ call = [op |-> "new"]
    /\ ret = NoResult

\* parse(orig_input). The header and the tables are those of the archive
\* built; the header is Some(header), the tuple of it.
Parse ==
    /\ call.op = "new"
    /\ call' = [op |-> "parse"]
    /\ ret' = parse(encryption_table, orig_input)
    /\ IF ret'.kind = "Ok"
       THEN /\ archive_header' = <<ret'.data[1]>>
            /\ hash_table_entries' = ret'.data[3]
            /\ block_table_entries' = ret'.data[4]
       ELSE UNCHANGED <<archive_header, hash_table_entries, block_table_entries>>
    /\ UNCHANGED <<encryption_table, orig_input>>

\* The reading of one table, on the lengths alone.
ParseTableLen ==
    /\ call.op = "new"
    /\ \E available \in TableRooms, entries \in TableCounts :
        /\ call' = [op |-> "parse_table_len", available |-> available,
                    entries |-> entries]
        /\ ret' = parse_table_len(available, entries)
    /\ UNCHANGED <<encryption_table, archive_header, hash_table_entries,
                   block_table_entries, orig_input>>

\* mpq.read_mpq_file_sector("a", false, orig_input) on the archive parsed.
ReadParsed ==
    /\ call.op = "parse"
    /\ ret.kind = "Ok"
    /\ \E overflow_checks \in BOOLEAN :
        /\ call' = [op |-> "read_mpq_file_sector", filename |-> <<LatinSmallA>>,
                    force_decompress |-> FALSE]
        /\ ret' = read_mpq_file_sector(encryption_table, archive_header[1],
                                       hash_table_entries, block_table_entries,
                                       <<LatinSmallA>>, FALSE, orig_input,
                                       overflow_checks)
    /\ UNCHANGED <<encryption_table, archive_header, hash_table_entries,
                   block_table_entries, orig_input>>

NextParse == Parse \/ ParseTableLen \/ ReadParsed

SpecParse == InitParse /\ [][NextParse]_vars


(***************************************************************************)
(* The archive parsed against the buffer                                   *)
(***************************************************************************)

\* parse has returned an archive.
Parsed == archive_header # <<>>

\* Where the archive header begins: at 0, or where the user data header at
\* the start of the buffer says.
Base ==
    IF orig_input[4] = MPQ_ARCHIVE_HEADER_TYPE THEN 0
    ELSE ToNat(SubSeq(orig_input, 9, 12))

\* The u32 of the archive header `at` bytes behind its start, as a number.
HeaderField(at) == ToNat(SubSeq(orig_input, Base + at + 1, Base + at + 4))

\* The plaintext of the 16 * entries bytes found `start` bytes behind the
\* archive header, decrypted in one call.
PlainTable(start, entries, key) ==
    mpq_data_decrypt(encryption_table,
                     SubSeq(orig_input, Base + start + 1, Base + start + 16 * entries),
                     key.data).data

\* C23: the base offset of the header parsed is 0 when the buffer begins with
\* the archive header and the archive_header_offset of the user data header
\* when one precedes it; the hash table is read at base + hash_table_offset,
\* the block table at base + block_table_offset, and the bytes of a block at
\* base + block.offset, each inside the buffer.
C23_OffsetsFromBase ==
    Parsed =>
        /\ archive_header[1].offset = OfNat(Base, 8)
        /\ Base + HeaderField(16) + 16 * HeaderField(24) <= Len(orig_input)
        /\ hash_table_entries
             = count("MPQHashTableEntry", HeaderField(24),
                     PlainTable(HeaderField(16), HeaderField(24),
                                hash_table_key(encryption_table))).data
        /\ Base + HeaderField(20) + 16 * HeaderField(28) <= Len(orig_input)
        /\ block_table_entries
             = count("MPQBlockTableEntry", HeaderField(28),
                     PlainTable(HeaderField(20), HeaderField(28),
                                block_table_key(encryption_table))).data
        /\ (/\ call.op = "read_mpq_file_sector"
            /\ hash_table_entries # <<>>
            /\ SameHashes(hash_table_entries[1], HashOf(call.filename, HashA),
                          HashOf(call.filename, HashB))
            /\ block_table_entries # <<>>)
           => /\ ret.kind = "Ok"
              /\ Base + ToNat(block_table_entries[1].offset)
                      + ToNat(block_table_entries[1].archived_size) <= Len(orig_input)
              /\ ret.data
                   = decompress(
                         SubSeq(orig_input,
                                Base + ToNat(block_table_entries[1].offset) + 1,
                                Base + ToNat(block_table_entries[1].offset)
                                     + ToNat(block_table_entries[1].archived_size))).data

\* The file of an archive behind a user data section, read.
C23_ReadBehindUserData ==
    /\ call.op = "read_mpq_file_sector"
    /\ Base = 24
    /\ Len(hash_table_entries) = 2
    /\ ret.kind = "Ok"
    /\ ret.data = <<65, 65, 65, 65, 65, 65, 65, 65, 65>>


(***************************************************************************)
(* The user data header against its fields                                 *)
(***************************************************************************)

\* On the buffers given byte by byte: the offset is no less than 16 + the
\* size of the content, the content has that size, and the bytes read,
\* the magic included, are as many as the offset.
UserDataByBytes ==
    (call.op = "MPQUserData_parse" /\ ret.kind = "Ok")
    => /\ ToNat(ret.data[1].archive_header_offset)
            >= 16 + ToNat(ret.data[1].user_data_header_size)
       /\ Len(ret.data[1].content) = ToNat(ret.data[1].user_data_header_size)
       /\ Len(orig_input) - Len(ret.tail)
            = ToNat(ret.data[1].archive_header_offset)
       /\ ret.tail = SubSeq(orig_input,
                            ToNat(ret.data[1].archive_header_offset) + 1,
                            Len(orig_input))

\* On the buffers given by their length: the same, in 64-bit arithmetic.
UserDataByLength ==
    (call.op = "MPQUserData_parse_len" /\ ret.kind = "Ok")
    => /\ ~Lt(ZeroExt(call.archive_header_offset, 8),
              Add(OfNat(16, 8), ZeroExt(call.user_data_header_size, 8)))
       /\ Add(ret.tail, ZeroExt(call.archive_header_offset, 8))
            = Add(call.len, OfNat(4, 8))

\* C24: whenever the user data header parses, archive_header_offset is no
\* less than 16 + user_data_header_size, the content has exactly
\* user_data_header_size bytes, and the bytes consumed from the start of the
\* buffer are exactly archive_header_offset, so that the next read begins at
\* that offset.
C24_UserDataEndsAtOffset == UserDataByBytes /\ UserDataByLength


(***************************************************************************)
(* The two tables against the header                                       *)
(***************************************************************************)

\* The entry i (from 0) of a table, parsed from the bytes 16i..16i+16 of
\* its plaintext.
EntryOfPlain(struct, plain, i) ==
    ParseEntry(struct, SubSeq(plain, 16 * i + 1, 16 * i + 16)).data

\* The tables of an archive parsed have the numbers of entries of the
\* header, each entry parsed from its 16 bytes of the plaintext of the whole
\* table.
TablesByBytes ==
    Parsed =>
        /\ Len(hash_table_entries) = HeaderField(24)
        /\ Len(block_table_entries) = HeaderField(28)
        /\ \A i \in 1..Len(hash_table_entries) :
            hash_table_entries[i]
              = EntryOfPlain("MPQHashTableEntry",
                             PlainTable(HeaderField(16), HeaderField(24),
                                        hash_table_key(encryption_table)),
                             i - 1)
        /\ \A i \in 1..Len(block_table_entries) :
            block_table_entries[i]
              = EntryOfPlain("MPQBlockTableEntry",
                             PlainTable(HeaderField(20), HeaderField(28),
                                        block_table_key(encryption_table)),
                             i - 1)

\* A table of which 16 * entries bytes are there is decrypted and parsed.
TablesByLength ==
    (call.op = "parse_table_len" /\ call.available >= 16 * call.entries)
    => ret.kind = "Ok" /\ ret.data = <<call.entries>>

\* C25: an archive parsed has exactly header.hash_table_entries hash table
\* entries and header.block_table_entries block table entries, the entry i
\* parsed from the bytes 16i..16i+16 of the plaintext of the whole table
\* decrypted in one call; and a table of which the 16 * N bytes are
\* available is decrypted and parsed without fail.
C25_TablesOfTheHeader == TablesByBytes /\ TablesByLength


(***************************************************************************)
(* The numbers of the sector loop                                          *)
(***************************************************************************)

\* Sizes of files up to 2^30 bytes, some of them no f32, and shifts of the
\* sector size up to those that an i32 no longer holds.
SizesGiven ==
    {0, 1, 511, 512, 4095, 4096, 8192, 16777217, 33554431, 1073741823}
ShiftsGiven == {0, 3, 8, 21, 22, 23, 32, 35}

\* A block of every size, with and without a CRC sector, in an archive of
\* every shift.
InitSectors ==
    /\ encryption_table = prepare_encryption_table
    /\ \E shift \in ShiftsGiven :
        archive_header = [offset |-> OfNat(0, 8), sector_size_shift |-> shift]
    /\ hash_table_entries = <<>>
    /\ \E size \in SizesGiven, set \in SUBSET {MPQ_FILE_SECTOR_CRC, MPQ_FILE_COMPRESS} :
        block_table_entries
          = <<[offset |-> OfNat(0, 4), archived_size |-> OfNat(8, 4),
               size |-> OfNat(size, 4),
               flags |-> BitOr(FlagsOf(set),
                               BitOr(MPQ_FILE_EXISTS, MPQ_FILE_SINGLE_UNIT))]>>
    /\ orig_input = <<>>
    /\ call = [op |-> "parse"]
    /\ ret = NoResult

\* The sector loop up to its bounds: the number of positions read and the
\* number of sectors concatenated, in `data`.
SectorLoop ==
    /\ call.op = "parse"
    /\ \E overflow_checks \in BOOLEAN :
        /\ call' = [op |-> "sector_loop"]
        /\ ret' = SectorCounts(archive_header, block_table_entries[1],
                               overflow_checks)
    /\ UNCHANGED <<encryption_table, archive_header, hash_table_entries,
                   block_table_entries, orig_input>>

NextSectors == SectorLoop

SpecSectors == InitSectors /\ [][NextSectors]_vars

\* floor(size / S) + 1 with S = 512 << sector_size_shift, for the sizes
\* below 2^31: from the shift 22 on S is beyond them.
SectorsOfSize ==
    IF archive_header.sector_size_shift >= 22 THEN 1
    ELSE ToNat(block_table_entries[1].size)
           \div (512 * 2^archive_header.sector_size_shift) + 1

\* C26: in the sector loop SECTOR_CRC adds exactly one position to those
\* read (N + 2 instead of N + 1) and the CRC sector gives no byte: the
\* sectors concatenated are N = floor(size / S) + 1 with and without
\* SECTOR_CRC, for every size and every sector_size_shift.
C26_SectorsOfSize ==
    call.op = "sector_loop"
    => /\ ret.kind = "Ok"
       /\ ret.data[1]
            = SectorsOfSize + 1
              + (IF HasFlag(block_table_entries[1].flags, MPQ_FILE_SECTOR_CRC)
                 THEN 1 ELSE 0)
       /\ ret.data[2] = SectorsOfSize


(***************************************************************************)
(* The linear scan against the probe from the home slot                    *)
(***************************************************************************)

\* A 32-bit value modulo n, n below 2^23.
RECURSIVE ModOf(_, _)
ModOf(w, n) == IF w = <<>> THEN 0 ELSE (w[1] + 256 * ModOf(Tail(w), n)) % n

\* The probe of the format, k slots behind the home slot: None at a slot
\* never used (0xFFFFFFFF) and when the home slot comes again, a deleted
\* slot (0xFFFFFFFE) passed over, the first entry of both hashes returned.
RECURSIVE ProbeFrom(_, _, _, _, _)
ProbeFrom(entries, hash_a, hash_b, home, k) ==
    IF k = Len(entries) THEN NoResult
    ELSE LET slot == entries[((home + k) % Len(entries)) + 1]
         IN  IF slot.block_table_index = U32(\hFF, \hFF, \hFF, \hFF)
             THEN NoResult
             ELSE IF slot.block_table_index = U32(\hFF, \hFF, \hFF, \hFE)
             THEN ProbeFrom(entries, hash_a, hash_b, home, k + 1)
             ELSE IF SameHashes(slot, hash_a, hash_b) THEN Found(slot)
             ELSE ProbeFrom(entries, hash_a, hash_b, home, k + 1)

\* The probe for a name, from hash(name, TableOffset) mod the size of the
\* table.
Probe(entries, filename) ==
    IF entries = <<>> THEN NoResult
    ELSE ProbeFrom(entries, HashOf(filename, HashA), HashOf(filename, HashB),
                   ModOf(HashOf(filename, TableOffset), Len(entries)), 0)

\* The slots of the tables looked up: the entries of "a" and of ".", the
\* slot of "Z" deleted, and a slot never used. No two have the same pair
\* of hashes.
SlotsGiven ==
    {HashEntry(HashOf(<<LatinSmallA>>, HashA), HashOf(<<LatinSmallA>>, HashB),
               U32(0, 0, 0, 0)),
     HashEntry(HashOf(<<FullStop>>, HashA), HashOf(<<FullStop>>, HashB),
               U32(0, 0, 0, 1)),
     HashEntry(HashOf(<<LatinCapitalZ>>, HashA), HashOf(<<LatinCapitalZ>>, HashB),
               U32(\hFF, \hFF, \hFF, \hFE)),
     HashEntry(U32(\hFF, \hFF, \hFF, \hFF), U32(\hFF, \hFF, \hFF, \hFF),
               U32(\hFF, \hFF, \hFF, \hFF))}

\* The tables of one to four of the slots, each slot at most once.
TablesGiven ==
    {entries \in UNION {[1..n -> SlotsGiven] : n \in 1..4} :
        \A i, j \in 1..Len(entries) : entries[i] = entries[j] => i = j}

InitLookup ==
    /\ encryption_table = prepare_encryption_table
    /\ archive_header = [offset |-> OfNat(0, 8), sector_size_shift |-> 3]
    /\ hash_table_entries \in TablesGiven
    /\ block_table_entries = <<SupportedBlock, SupportedBlock>>
    /\ orig_input = Input
    /\ call = [op |-> "parse"]
    /\ ret = NoResult

NextLookup == GetHashTableEntry

SpecLookup == InitLookup /\ [][NextLookup]_vars

\* C27: on a hash table in which every pair (hash_a, hash_b) is that of at
\* most one entry, get_hash_table_entry returns what the probe returns that
\* starts at hash(name, TableOffset) mod hash_table_entries, goes on slot by
\* slot modulo the size of the table, ends with None at a 0xFFFFFFFF slot or
\* back at the home slot, and passes over the 0xFFFFFFFE slots.
C27_ScanIsProbe ==
    (/\ Looks
     /\ \A i, j \in 1..Len(hash_table_entries) :
            SameHashes(hash_table_entries[i], hash_table_entries[j].hash_a,
                       hash_table_entries[j].hash_b) => i = j)
    => ret = Probe(hash_table_entries, call.filename)


(***************************************************************************)
(* The index into the block table                                          *)
(***************************************************************************)

\* The entry of the name read names no block of the table: its index is a
\* sentinel or is not below the number of blocks.
NamesNoBlock ==
    /\ Places # {}
    /\ ~Lt(hash_table_entries[FirstPlace].block_table_index,
           OfNat(Len(block_table_entries), 4))

\* C29: the block table is indexed with the block_table_index of the entry
\* matched only when the index is below the number of block table entries;
\* an index of 0xFFFFFFFF or 0xFFFFFFFE, or any other not below that number,
\* is never used to index the block table.
C29_IndexInBlockTable ==
    (Reads /\ NamesNoBlock)
    => ~(ret.kind = "Panic" /\ ret.why = "index out of bounds")


(***************************************************************************)
(* parse on tables that are not in the buffer                              *)
(***************************************************************************)

\* The table whose offset and number of entries are the u32 `at` and
\* `at + 8` bytes behind the start of the archive header does not lie in
\* the buffer: its end, base + offset + 16 * entries, is behind the end of
\* the buffer.
TableBeyondBuffer(at) ==
    Lt(OfNat(Len(orig_input), 8),
       Add(Add(OfNat(Base, 8),
               ZeroExt(SubSeq(orig_input, Base + at + 1, Base + at + 4), 8)),
           Shl(ZeroExt(SubSeq(orig_input, Base + at + 9, Base + at + 12), 8), 4)))

\* C28: parse reads nothing outside the buffer and ends with Ok or with an
\* error value on every buffer; when base + hash_table_offset or base +
\* block_table_offset is beyond the buffer, or fewer than 16 * entries bytes
\* are left there, it returns an error and no archive.
C28_ParseReturns ==
    call.op = "parse"
    => /\ ret.kind \in {"Ok", "Err"}
       /\ (TableBeyondBuffer(16) \/ TableBeyondBuffer(20))
          => ret.kind = "Err" /\ ~Parsed


(***************************************************************************)
(* The sector loop within its bounds                                       *)
(***************************************************************************)

\* The read comes to the sector loop: a block that is there to read and is
\* not decompressed as a single unit.
SectorLoopReached == SingleUnitBlock /\ ~ToDecompress

\* C30: in the sector loop the counter of the bytes left, which starts at
\* block.size and from which the length of every sector is subtracted, never
\* goes below zero, and the position table is usable: the positions read lie
\* in the block (4 * positions <= archived_size), they are in order and none
\* is beyond archived_size; no subtraction underflows and no slice is out of
\* range.
C30_SectorLoopInBounds ==
    SectorLoopReached
    => /\ ret.kind # "Panic"
       /\ PositionsUsable
       /\ PositionAt(SectorCount + 1) - PositionAt(1) <= ToNat(TheBlock.size)

====
